---- MODULE Spec2Model ----
(***************************************************************************)
(* Recognition consensus engine of ArtScan (src/scan.js): the per-attempt  *)
(* weighted-voting aggregator, the sliding scan history and its confidence *)
(* check, and the continuous scanning loop with the handlers that start    *)
(* and stop it.                                                            *)
(*                                                                         *)
(* Numbers.  JavaScript numbers are doubles; the model keeps integers and  *)
(* compares fractions by cross-multiplication:                             *)
(*   voteCount / n < 0.8            as  100 * voteCount < 80 * n           *)
(*   maxCount / n >= 0.67           as  100 * maxCount >= 67 * n           *)
(*   Math.round(p / q)              as  (2 * p + q) \div (2 * q)           *)
(*   score = v*100 + (t/c)*0.5 + m*0.1   as  scoreNum / (10 * c) with      *)
(*   scoreNum = 1000*v*c + 5*t + m*c.                                      *)
(* For the frame counts of the program (at most 7) no quotient lies within *)
(* a rounding error of a threshold, so the comparisons agree with the      *)
(* doubles.  Scores are compared exactly.                                  *)
(***************************************************************************)
EXTENDS Integers, Sequences, FiniteSets, Bags, TLC

VARIABLES
    isMobile,         \* const isMobile (scan.js:760)
    scanningActive,   \* let scanningActive (scan.js:806)
    scanHistory,      \* let scanHistory (scan.js:807)
    camera,           \* progress of requestCameraAccess
    loops,            \* bag of the pending start timers and the suspended instances of startContinuousScanning
    phase,            \* position of the instance that is executing the synchronous tail of an attempt
    attempt,          \* outcomes of recognizePresident for the frames of the attempt being closed
    frameResults,     \* const frameResults of that attempt (scan.js:1786)
    aggregatedResult, \* const aggregatedResult (scan.js:1826)
    shouldDisplay,    \* const shouldDisplay (scan.js:1855)
    shifted,          \* the entry scanHistory.shift() removed in the attempt being closed, null otherwise
    strategies,       \* what the two strategies did for the frame classified last
    stopBtn,          \* #stop-view-logs-btn is displayed
    logsModal,        \* #logs-modal is displayed
    resultModal,      \* #result-modal is displayed
    displayed,        \* the argument of displayResult in the step that calls it, null otherwise
    vibrated,         \* the pattern given to vibrate() after a result in the step that calls it, "none" otherwise
    stopRequested,    \* history: a stop request was made and no start request (camera grant, resume, close) since
    allocated,        \* native (OpenCV) objects created by the call being followed and not yet deleted
    confidences,      \* the confidence values computed in the step, in the order computed
    logs,             \* DiagnosticLogger.logs (scan.js:822), followed in SpecLogger
    routerReady,      \* Router.init() has run (router.js:151)
    currentRoute,     \* let currentRoute (router.js:9)
    currentState,     \* let currentState (router.js:10)
    historyEntries,   \* the entries of window.history, the last one current
    appHtml,          \* the content of #app: the template rendered last
    pendingRoutes,    \* the calls of handleRoute suspended in renderTemplate
    navigations,      \* history: the number of navigate calls made
    lifecycle,        \* history: the onLeave and onEnter calls made, in order
    sessions,         \* logStorage.sessions (server.js:133), in insertion order
    now,              \* Date.now() of the server
    requests,         \* history: the number of POST /api/logs requests served
    response          \* the status of the response sent last, 0 before any

router == <<routerReady, currentRoute, currentState, historyEntries, appHtml,
            pendingRoutes, navigations, lifecycle>>
server == <<sessions, now, requests, response>>
web == <<router, server>>

vars == <<isMobile, scanningActive, scanHistory, camera, loops, phase, attempt,
          frameResults, aggregatedResult, shouldDisplay, shifted, strategies,
          stopBtn, logsModal, resultModal, displayed, vibrated, stopRequested,
          allocated, confidences, logs, router, server>>

----------------------------------------------------------------------------
(* Bounds of the model *)

\* Pending start timers plus running loop instances that exist at one time.
MaxLoops == 2

\* Entries the diagnostic log is followed up to.
MaxLogs == 120

\* The navigate calls followed.
MaxNavigations == 3

\* The POST /api/logs requests followed.
MaxRequests == 3

\* The single milliseconds the server's clock is followed through.
MaxTicks == 2

\* Identities the classifiers can report.
Identities == {"A", "B"}

----------------------------------------------------------------------------
(* Program constants *)

HISTORY_SIZE == 3
CONSENSUS_THRESHOLD_PCT == 80
TIE_MARGIN == 1
MIN_MATCH_QUALITY == 8
CONSISTENCY_PCT == 67
PERFECT_SCAN_MIN_MATCHES == 25
PERFECT_SCAN_CONSENSUS == 100
LATEST_MIN_CONSENSUS == 80
MIN_ORB_MATCHES == 20
FACE_MATCHES_PLACEHOLDER == 100
DISPLAY_MIN_MATCHES == 20
VIBRATE_MIN_MATCHES == 15
CONFIDENCE_CAP == 95
CONFIDENCE_BASE == 40
CONFIDENCE_SCALE == 500
CAPTURE_NUM_FRAMES == 5
LOG_LIMIT == 100

\* logStorage (server.js)
maxSessionAge == 3600000
maxLogsPerSession == 1000
maxSessions == 50

NUM_FRAMES == IF isMobile THEN 7 ELSE 5
SCAN_INTERVAL == IF isMobile THEN 300 ELSE 600
FRAME_DELAY == IF isMobile THEN 50 ELSE 250

\* The delay the loop passes to setTimeout between two attempts; a loop
\* instance that waits carries the delay it asked for in its field i.
InterAttemptWait == SCAN_INTERVAL - NUM_FRAMES * FRAME_DELAY
orbFeatures == IF isMobile THEN 1000 ELSE 500

\* JavaScript null.
null == [kind |-> "null"]

\* An entry of DiagnosticLogger.logs, kept by its event.
Entry(event) == [event |-> event]

Abs(x) == IF x < 0 THEN 0 - x ELSE x

\* Math.round(p / q) for p >= 0, q > 0.
Round(p, q) == (2 * p + q) \div (2 * q)

----------------------------------------------------------------------------
(* recognizePresident: the two-layer dispatcher, as a function of what the *)
(* two strategies return for the frame.                                    *)

\* tryFaceRecognition: null, or the known label FaceMatcher found.
FaceResults == {null} \cup {[name |-> "A", match |-> "A"]}

\* tryORBMatching: null, or matchImage's best reference with its good matches.
OrbCounts == {MIN_ORB_MATCHES - 1, MIN_ORB_MATCHES, orbFeatures}
OrbResults == {null} \cup {[name |-> n, matches |-> q] : n \in Identities, q \in OrbCounts}

\* A Layer 2 threshold that the minimum itself does not pass.
recognizePresident_Above(face, orb) ==
    IF face # null /\ face.match # "unknown"
    THEN [kind |-> "match", name |-> face.name,
          matches |-> FACE_MATCHES_PLACEHOLDER, method |-> "face-recognition"]
    ELSE IF orb # null /\ orb.matches > MIN_ORB_MATCHES
         THEN [kind |-> "match", name |-> orb.name,
               matches |-> orb.matches, method |-> "orb-matching"]
         ELSE null

\* A Layer 2 threshold of 15 good matches, the figure the README gives.
recognizePresident_Documented(face, orb) ==
    IF face # null /\ face.match # "unknown"
    THEN [kind |-> "match", name |-> face.name,
          matches |-> FACE_MATCHES_PLACEHOLDER, method |-> "face-recognition"]
    ELSE IF orb # null /\ orb.matches >= VIBRATE_MIN_MATCHES
         THEN [kind |-> "match", name |-> orb.name,
               matches |-> orb.matches, method |-> "orb-matching"]
         ELSE null

recognizePresident(face, orb) ==
    IF face # null /\ face.match # "unknown"
    THEN [kind |-> "match", name |-> face.name,
          matches |-> FACE_MATCHES_PLACEHOLDER, method |-> "face-recognition"]
    ELSE IF orb # null /\ orb.matches >= MIN_ORB_MATCHES
         THEN [kind |-> "match", name |-> orb.name,
               matches |-> orb.matches, method |-> "orb-matching"]
         ELSE null

FrameOutcomes == {recognizePresident(f, o) : f \in FaceResults, o \in OrbResults}

----------------------------------------------------------------------------
(* aggregateFrameResults *)

\* if (match) frameResults.push(match): the frames that produced a result.
Collect(att) == SelectSeq(att, LAMBDA r : r # null)

RECURSIVE SumMatches(_)
SumMatches(s) == IF s = <<>> THEN 0 ELSE Head(s).matches + SumMatches(Tail(s))

RECURSIVE MaxMatches(_)
MaxMatches(s) ==
    IF s = <<>> THEN 0
    ELSE LET m == MaxMatches(Tail(s))
         IN IF Head(s).matches > m THEN Head(s).matches ELSE m

\* Keys of the votes Map, in insertion order (first appearance).
RECURSIVE VoteNames(_)
VoteNames(fr) ==
    IF fr = <<>> THEN <<>>
    ELSE LET init == VoteNames(SubSeq(fr, 1, Len(fr) - 1))
             n == fr[Len(fr)].name
         IN IF \E i \in 1..Len(init) : init[i] = n THEN init ELSE Append(init, n)

\* The votes Map entry of one name after the counting loop.
Tally(fr, n) ==
    LET mine == SelectSeq(fr, LAMBDA r : r.name = n)
    IN [name |-> n, voteCount |-> Len(mine), totalMatches |-> SumMatches(mine),
        maxMatches |-> MaxMatches(mine), frameCount |-> Len(mine)]

\* The .map() step: avgMatches rounded, score, consensus.
Candidate(p, n) ==
    [name |-> p.name, voteCount |-> p.voteCount, totalMatches |-> p.totalMatches,
     maxMatches |-> p.maxMatches, frameCount |-> p.frameCount,
     avgMatches |-> Round(p.totalMatches, p.frameCount),
     scoreNum |-> 1000 * p.voteCount * p.frameCount + 5 * p.totalMatches
                  + p.maxMatches * p.frameCount,
     consensusNum |-> p.voteCount, consensusDen |-> n]

\* a.score > b.score
ScoreGreater(a, b) == a.scoreNum * b.frameCount > b.scoreNum * a.frameCount

\* .sort((a, b) => b.score - a.score): descending, stable.
RECURSIVE SortByScore(_)
SortByScore(s) ==
    IF s = <<>> THEN <<>>
    ELSE LET x == Head(s)
             rest == SortByScore(Tail(s))
             k == Cardinality({i \in 1..Len(rest) : ScoreGreater(rest[i], x)})
         IN SubSeq(rest, 1, k) \o <<x>> \o SubSeq(rest, k + 1, Len(rest))

Candidates(fr) ==
    LET names == VoteNames(fr)
    IN SortByScore([i \in 1..Len(names) |-> Candidate(Tally(fr, names[i]), Len(fr))])

\* The threshold compared with the vote count instead of the consensus.
BelowConsensus_Votes(winner) ==
    100 * winner.voteCount < CONSENSUS_THRESHOLD_PCT

\* A consensus threshold of one half.
BelowConsensus_Half(winner) ==
    100 * winner.consensusNum < 50 * winner.consensusDen

BelowConsensus(winner) ==
    100 * winner.consensusNum < CONSENSUS_THRESHOLD_PCT * winner.consensusDen

VotesClose(winner, runnerUp) ==
    Abs(winner.voteCount - runnerUp.voteCount) <= TIE_MARGIN

QualityClose(winner, runnerUp) ==
    Abs(winner.avgMatches - runnerUp.avgMatches) < MIN_MATCH_QUALITY

WinnerTotalFrames(fr) == Len(fr)

\* The percentage truncated instead of rounded.
WinnerConsensus_Floor(winner) == (100 * winner.consensusNum) \div winner.consensusDen

WinnerConsensus(winner) == Round(100 * winner.consensusNum, winner.consensusDen)

aggregateFrameResults(fr) ==
    IF Len(fr) = 0 THEN null
    ELSE LET candidates == Candidates(fr)
             winner == candidates[1]
             runnerUp == IF Len(candidates) > 1 THEN candidates[2] ELSE null
         IN IF BelowConsensus(winner)
            THEN [kind |-> "inconclusive",
                  topCandidates |-> IF runnerUp # null THEN <<winner, runnerUp>>
                                    ELSE <<winner>>,
                  voteCount |-> winner.voteCount, totalFrames |-> Len(fr),
                  reason |-> "insufficient_consensus"]
            ELSE IF runnerUp # null /\ VotesClose(winner, runnerUp)
                    /\ QualityClose(winner, runnerUp)
            THEN [kind |-> "inconclusive", topCandidates |-> <<winner, runnerUp>>,
                  voteCount |-> winner.voteCount, totalFrames |-> Len(fr),
                  reason |-> "tie"]
            ELSE [kind |-> "winner", name |-> winner.name,
                  matches |-> winner.maxMatches, avgMatches |-> winner.avgMatches,
                  voteCount |-> winner.voteCount,
                  totalFrames |-> WinnerTotalFrames(fr),
                  consensus |-> WinnerConsensus(winner),
                  score |-> Round(winner.scoreNum, 10 * winner.frameCount)]

----------------------------------------------------------------------------
(* checkForConfidentMatch *)

\* Keys of nameCounts, in insertion order.
RECURSIVE HistoryNames(_)
HistoryNames(h) ==
    IF h = <<>> THEN <<>>
    ELSE LET init == HistoryNames(SubSeq(h, 1, Len(h) - 1))
             n == h[Len(h)].name
         IN IF \E i \in 1..Len(init) : init[i] = n THEN init ELSE Append(init, n)

NameCount(h, n) == Cardinality({i \in 1..Len(h) : h[i].name = n})

\* The "find most frequent" loop: the first key whose count is the maximum.
MaxCount(h) ==
    LET names == HistoryNames(h)
    IN CHOOSE c \in {NameCount(h, names[i]) : i \in 1..Len(names)} :
          \A j \in 1..Len(names) : NameCount(h, names[j]) <= c

MostFrequent(h) ==
    LET names == HistoryNames(h)
        first == CHOOSE i \in 1..Len(names) :
                    /\ NameCount(h, names[i]) = MaxCount(h)
                    /\ \A j \in 1..(i - 1) : NameCount(h, names[j]) < MaxCount(h)
    IN names[first]

\* A perfect single scan tested against the consensus as a fraction.
PerfectSingleScan_Fraction(latestScan) ==
    /\ latestScan.consensus = 1
    /\ latestScan.matches >= PERFECT_SCAN_MIN_MATCHES

\* Option 1: perfect single scan.
PerfectSingleScan(latestScan) ==
    /\ latestScan.consensus = PERFECT_SCAN_CONSENSUS
    /\ latestScan.matches >= PERFECT_SCAN_MIN_MATCHES

\* A consistency threshold of one half.
Consistent_Half(h) == 100 * MaxCount(h) >= 50 * Len(h)

\* consistency >= 0.67
Consistent(h) == 100 * MaxCount(h) >= CONSISTENCY_PCT * Len(h)

\* The consistency rule applied to a history of any length.
checkForConfidentMatch_NoMinimum(h) ==
    IF Len(h) = 0 THEN null
    ELSE LET latestScan == h[Len(h)]
         IN IF PerfectSingleScan(latestScan) THEN latestScan
            ELSE IF /\ Consistent(h)
                    /\ latestScan.name = MostFrequent(h)
                    /\ latestScan.consensus >= LATEST_MIN_CONSENSUS
                 THEN latestScan
                 ELSE null

\* Option 2 without the consistency across attempts.
checkForConfidentMatch_NoConsistency(h) ==
    IF Len(h) = 0 THEN null
    ELSE LET latestScan == h[Len(h)]
         IN IF PerfectSingleScan(latestScan) THEN latestScan
            ELSE IF /\ Len(h) >= 2
                    /\ latestScan.consensus >= LATEST_MIN_CONSENSUS
                 THEN latestScan
                 ELSE null

\* A perfect single scan that counts only as the first entry of the history.
checkForConfidentMatch_PerfectOnlyFirst(h) ==
    IF Len(h) = 0 THEN null
    ELSE LET latestScan == h[Len(h)]
         IN IF Len(h) = 1 /\ PerfectSingleScan(latestScan) THEN latestScan
            ELSE IF /\ Len(h) >= 2
                    /\ Consistent(h)
                    /\ latestScan.name = MostFrequent(h)
                    /\ latestScan.consensus >= LATEST_MIN_CONSENSUS
                 THEN latestScan
                 ELSE null

checkForConfidentMatch(h) ==
    IF Len(h) = 0 THEN null
    ELSE LET latestScan == h[Len(h)]
         IN IF PerfectSingleScan(latestScan) THEN latestScan
            ELSE IF /\ Len(h) >= 2
                    /\ Consistent(h)
                    /\ latestScan.name = MostFrequent(h)
                    /\ latestScan.consensus >= LATEST_MIN_CONSENSUS
                 THEN latestScan
                 ELSE null

\* A history that never evicts.
PushHistory_NoEvict(h, r) == Append(h, r)

\* A history that evicts its newest entry (pop() for shift()).
PushHistory_Pop(h, r) ==
    LET pushed == Append(h, r)
    IN IF Len(pushed) > HISTORY_SIZE THEN SubSeq(pushed, 1, HISTORY_SIZE) ELSE pushed

\* scanHistory.push(aggregatedResult), then shift() when over HISTORY_SIZE.
PushHistory(h, r) ==
    LET pushed == Append(h, r)
    IN IF Len(pushed) > HISTORY_SIZE THEN Tail(pushed) ELSE pushed

\* What scanHistory.shift() removes when the attempt's result is recorded.
ShiftedBy(h, r) ==
    IF r # null /\ r.kind # "inconclusive" /\ Len(h) + 1 > HISTORY_SIZE
    THEN Head(h) ELSE null

\* A history that drops its oldest entry when an attempt brings nothing.
RecordAttempt_Ages(h, r) ==
    IF r # null /\ r.kind # "inconclusive" THEN PushHistory(h, r)
    ELSE IF h = <<>> THEN h ELSE Tail(h)

\* The "add to history" statement of the loop.
RecordAttempt(h, r) ==
    IF r # null /\ r.kind # "inconclusive" THEN PushHistory(h, r) ELSE h

----------------------------------------------------------------------------
(* The attempts the environment presents *)

Steady(o) == [i \in 1..NUM_FRAMES |-> o]

\* k frames with outcome o1, the remaining frames with outcome o2.
Mix(o1, k, o2) == [i \in 1..NUM_FRAMES |-> IF i <= k THEN o1 ELSE o2]

Orb(n) == recognizePresident(null, [name |-> n, matches |-> MIN_ORB_MATCHES])
Face(n) == recognizePresident([name |-> n, match |-> n], null)

\* Every sequence of NUM_FRAMES frame outcomes.
AllAttempts == [1..NUM_FRAMES -> FrameOutcomes]

\* The attempts of the scanning session: a steady view (no result, a face
\* match, a weak descriptor match of either identity), one deviating last
\* frame, and a split view [A, A, B, B, none, ...].
Scenes ==
    {Steady(o) : o \in {null, Face("A"), Orb("A"), Orb("B")}}
    \cup {Mix(Orb("A"), NUM_FRAMES - 1, Orb("B")), Mix(Orb("B"), NUM_FRAMES - 1, Orb("A"))}
    \cup {[i \in 1..NUM_FRAMES |->
             IF i <= 2 THEN Orb("A") ELSE IF i <= 4 THEN Orb("B") ELSE null]}

----------------------------------------------------------------------------
(* displayResult and the feedback after a result *)

Min(a, b) == IF a < b THEN a ELSE b

\* Math.min(95, Math.round((matches / 500) * 100 + 40))
\* A confidence without its cap.
DisplayConfidence_NoCap(matches) ==
    Round(100 * matches + CONFIDENCE_BASE * CONFIDENCE_SCALE, CONFIDENCE_SCALE)

DisplayConfidence(matches) ==
    Min(CONFIDENCE_CAP,
        Round(100 * matches + CONFIDENCE_BASE * CONFIDENCE_SCALE, CONFIDENCE_SCALE))

\* The branch of displayResult that renders the result.
Shown(match) ==
    IF match # null /\ match.kind = "inconclusive" THEN "inconclusive"
    ELSE IF match # null /\ match.matches >= DISPLAY_MIN_MATCHES THEN "match"
    ELSE "noMatch"

displayResult(match) ==
    /\ displayed' = match
    /\ confidences' = IF Shown(match) = "match"
                      THEN <<DisplayConfidence(match.matches)>> ELSE <<>>
    /\ resultModal' = TRUE

\* if (match && match.matches >= 15) vibrate([50, 100, 50]) else vibrate([100, 50, 100])
FeedbackFor(match) ==
    IF match # null /\ match.kind # "inconclusive" /\ match.matches >= VIBRATE_MIN_MATCHES
    THEN "success" ELSE "noMatch"

----------------------------------------------------------------------------
(* The scanning session *)

Lp(pc, i) == [pc |-> pc, i |-> i]
Timer == Lp("timer", 0)
InSync == Lp("sync", 0)

Put(b, s) == b (+) SetToBag({s})
Take(b, s) == b (-) SetToBag({s})
Move(b, s, t) == Put(Take(b, s), t)

\* A slot is left for one more timer or loop instance.
Room == BagCardinality(loops) < MaxLoops

Quiet == phase = "idle"

locals == <<attempt, frameResults, aggregatedResult, shouldDisplay, shifted>>
ui == <<stopBtn, logsModal, resultModal, displayed, vibrated>>
aux == <<allocated, confidences, logs>>

ResetLocals ==
    /\ attempt' = <<>>
    /\ frameResults' = <<>>
    /\ aggregatedResult' = null
    /\ shouldDisplay' = null
    /\ shifted' = null

\* router.js as loaded: no route entered yet, window.history holds the entry
\* of the page load.
RouterLoaded ==
    /\ routerReady = FALSE
    /\ currentRoute = null
    /\ currentState = null
    /\ historyEntries = <<[path |-> "/", state |-> null]>>
    /\ appHtml = ""
    /\ pendingRoutes = {}
    /\ navigations = 0
    /\ lifecycle = <<>>

\* server.js as started: an empty log store.
ServerStarted ==
    /\ sessions = <<>>
    /\ now = 0
    /\ requests = 0
    /\ response = 0

Init ==
    /\ isMobile \in BOOLEAN
    /\ scanningActive = FALSE
    /\ scanHistory = <<>>
    /\ camera = "requesting"
    /\ loops = EmptyBag
    /\ phase = "idle"
    /\ attempt = <<>>
    /\ frameResults = <<>>
    /\ aggregatedResult = null
    /\ shouldDisplay = null
    /\ shifted = null
    /\ strategies = null
    /\ stopBtn = FALSE
    /\ logsModal = FALSE
    /\ resultModal = FALSE
    /\ displayed = null
    /\ vibrated = "none"
    /\ stopRequested = FALSE
    /\ allocated = {}
    /\ confidences = <<>>
    /\ logs = <<Entry("session_start")>>
    /\ RouterLoaded /\ ServerStarted

\* requestCameraAccess resolves: the start of scanning is scheduled.
CameraGranted ==
    /\ Quiet /\ camera = "requesting" /\ Room
    /\ camera' = "ready"
    /\ loops' = Put(loops, Timer)
    /\ UNCHANGED <<web, isMobile, aux, strategies, scanningActive, scanHistory, phase, locals, ui, stopRequested>>

\* requestCameraAccess fails on both constraint sets: showPermissionPrompt.
CameraDenied ==
    /\ Quiet /\ camera = "requesting"
    /\ camera' = "denied"
    /\ UNCHANGED <<web, isMobile, aux, strategies, scanningActive, scanHistory, loops, phase, locals, ui, stopRequested>>

\* Click on #request-permission-btn.
RequestPermission ==
    /\ Quiet /\ camera = "denied"
    /\ camera' = "requesting"
    /\ UNCHANGED <<web, isMobile, aux, strategies, scanningActive, scanHistory, loops, phase, locals, ui, stopRequested>>

\* A start timer fires: startContinuousScanning runs up to its first await.
startContinuousScanning ==
    /\ Quiet /\ BagIn(Timer, loops)
    /\ scanningActive' = TRUE
    /\ stopBtn' = TRUE
    /\ loops' = Move(loops, Timer, Lp("recognize", 0))
    /\ UNCHANGED <<web, isMobile, aux, strategies, scanHistory, camera, phase, locals, logsModal,
                   resultModal, displayed, vibrated, stopRequested>>

\* recognizePresident resolves for a frame that is not the last of the attempt.
FrameRecognized ==
    /\ Quiet
    /\ \E i \in 0..(NUM_FRAMES - 2) :
          /\ BagIn(Lp("recognize", i), loops)
          /\ loops' = Move(loops, Lp("recognize", i), Lp("frameDelay", i))
    /\ UNCHANGED <<web, isMobile, aux, strategies, scanningActive, scanHistory, camera, phase, locals, ui, stopRequested>>

\* The delay between two frames elapses: the next frame is captured.
FrameDelayElapsed ==
    /\ Quiet
    /\ \E i \in 0..(NUM_FRAMES - 2) :
          /\ BagIn(Lp("frameDelay", i), loops)
          /\ loops' = Move(loops, Lp("frameDelay", i), Lp("recognize", i + 1))
    /\ UNCHANGED <<web, isMobile, aux, strategies, scanningActive, scanHistory, camera, phase, locals, ui, stopRequested>>

\* A catch that gives up scanning.
AttemptThrows_Stops ==
    /\ Quiet
    /\ \E i \in 0..(NUM_FRAMES - 1) :
          /\ BagIn(Lp("recognize", i), loops)
          /\ loops' = Move(loops, Lp("recognize", i), Lp("errorWait", SCAN_INTERVAL))
    /\ scanningActive' = FALSE
    /\ UNCHANGED <<web, isMobile, aux, strategies, scanHistory, camera, phase, locals, ui, stopRequested>>

\* Capturing or classifying a frame throws: the catch of the loop waits SCAN_INTERVAL.
AttemptThrows ==
    /\ Quiet
    /\ \E i \in 0..(NUM_FRAMES - 1) :
          /\ BagIn(Lp("recognize", i), loops)
          /\ loops' = Move(loops, Lp("recognize", i), Lp("errorWait", SCAN_INTERVAL))
    /\ UNCHANGED <<web, isMobile, aux, strategies, scanningActive, scanHistory, camera, phase, locals, ui, stopRequested>>

\* The synchronous tail of an attempt up to the test of shouldDisplay:
\* aggregate, add to history, check for a confident match.
CloseAttempt(att) ==
    /\ attempt' = att
    /\ frameResults' = Collect(att)
    /\ aggregatedResult' = aggregateFrameResults(frameResults')
    /\ scanHistory' = RecordAttempt(scanHistory, aggregatedResult')
    /\ shifted' = ShiftedBy(scanHistory, aggregatedResult')
    /\ shouldDisplay' = checkForConfidentMatch(scanHistory')
    /\ phase' = "checked"

\* recognizePresident resolves for the last frame.  frameResults is local to
\* the attempt and is read only from here on, so the outcomes of the frames
\* of the attempt (one of the attempts S) are drawn here.
AttemptCompleted(S) ==
    /\ Quiet /\ BagIn(Lp("recognize", NUM_FRAMES - 1), loops)
    /\ \E att \in S : CloseAttempt(att)
    /\ loops' = Move(loops, Lp("recognize", NUM_FRAMES - 1), InSync)
    /\ UNCHANGED <<web, isMobile, aux, strategies, scanningActive, camera, ui, stopRequested>>

SceneCompleted == AttemptCompleted(Scenes)

\* A finalize branch that removes only the displayed entry from the history.
Finalize_DropsLatest ==
    /\ phase = "checked" /\ shouldDisplay # null
    /\ scanningActive' = FALSE
    /\ stopBtn' = FALSE
    /\ vibrated' = "success"
    /\ displayResult(shouldDisplay)
    /\ scanHistory' = SubSeq(scanHistory, 1, Len(scanHistory) - 1)
    /\ phase' = "finalized"
    /\ UNCHANGED <<web, isMobile, allocated, logs, strategies, camera, loops, locals, logsModal, stopRequested>>

\* A finalize branch that keeps the history.
Finalize_KeepsHistory ==
    /\ phase = "checked" /\ shouldDisplay # null
    /\ scanningActive' = FALSE
    /\ stopBtn' = FALSE
    /\ vibrated' = "success"
    /\ displayResult(shouldDisplay)
    /\ phase' = "finalized"
    /\ UNCHANGED <<web, isMobile, allocated, logs, strategies, scanHistory, camera, loops, locals, logsModal, stopRequested>>

\* if (shouldDisplay) { ... }
Finalize ==
    /\ phase = "checked" /\ shouldDisplay # null
    /\ scanningActive' = FALSE
    /\ stopBtn' = FALSE
    /\ vibrated' = "success"
    /\ displayResult(shouldDisplay)
    /\ scanHistory' = <<>>
    /\ phase' = "finalized"
    /\ UNCHANGED <<web, isMobile, allocated, logs, strategies, camera, loops, locals, logsModal, stopRequested>>

\* Back at while (scanningActive) after the finalize branch: the loop ends.
LoopEnds ==
    /\ phase = "finalized"
    /\ IF scanningActive
       THEN loops' = Move(loops, InSync, Lp("recognize", 0)) /\ UNCHANGED stopBtn
       ELSE loops' = Take(loops, InSync) /\ stopBtn' = FALSE
    /\ phase' = "idle"
    /\ ResetLocals
    /\ displayed' = null
    /\ vibrated' = "none"
    /\ confidences' = <<>>
    /\ UNCHANGED <<web, isMobile, allocated, logs, strategies, scanningActive, scanHistory, camera, logsModal,
                   resultModal, stopRequested>>

\* else { await setTimeout(SCAN_INTERVAL - NUM_FRAMES * FRAME_DELAY) }
ContinueScanning ==
    /\ phase = "checked" /\ shouldDisplay = null
    /\ loops' = Move(loops, InSync, Lp("scanWait", InterAttemptWait))
    /\ phase' = "idle"
    /\ ResetLocals
    /\ UNCHANGED <<web, isMobile, aux, strategies, scanningActive, scanHistory, camera, ui, stopRequested>>

\* The wait between attempts (or after a failed attempt) elapses: the loop
\* tests scanningActive and starts the next attempt or ends.
WaitElapsed ==
    /\ Quiet
    /\ \E w \in {Lp("scanWait", InterAttemptWait), Lp("errorWait", SCAN_INTERVAL)} :
          /\ BagIn(w, loops)
          /\ IF scanningActive
             THEN loops' = Move(loops, w, Lp("recognize", 0)) /\ UNCHANGED stopBtn
             ELSE loops' = Take(loops, w) /\ stopBtn' = FALSE
    /\ UNCHANGED <<web, isMobile, aux, strategies, scanningActive, scanHistory, camera, phase, locals,
                   logsModal, resultModal, displayed, vibrated, stopRequested>>

\* Click on #stop-view-logs-btn.
stopAndViewLogs ==
    /\ Quiet /\ stopBtn
    /\ scanningActive' = FALSE
    /\ stopBtn' = FALSE
    /\ logsModal' = TRUE
    /\ stopRequested' = TRUE
    /\ UNCHANGED <<web, isMobile, aux, strategies, scanHistory, camera, loops, phase, locals, resultModal, displayed, vibrated>>

\* Click on #resume-scan-btn.
resumeScanning ==
    /\ Quiet /\ logsModal /\ Room
    /\ logsModal' = FALSE
    /\ stopBtn' = TRUE
    /\ loops' = Put(loops, Timer)
    /\ stopRequested' = FALSE
    /\ UNCHANGED <<web, isMobile, aux, strategies, scanningActive, scanHistory, camera, phase, locals,
                   resultModal, displayed, vibrated>>

\* Click on #close-logs-btn.
closeLogsModal ==
    /\ Quiet /\ logsModal /\ Room
    /\ logsModal' = FALSE
    /\ stopBtn' = TRUE
    /\ loops' = Put(loops, Timer)
    /\ stopRequested' = FALSE
    /\ UNCHANGED <<web, isMobile, aux, strategies, scanningActive, scanHistory, camera, phase, locals,
                   resultModal, displayed, vibrated>>

\* Click on #close-result-btn or #scan-again-btn.
closeResult ==
    /\ Quiet /\ resultModal
    /\ resultModal' = FALSE
    /\ IF ~scanningActive
       THEN /\ Room
            /\ stopBtn' = TRUE
            /\ loops' = Put(loops, Timer)
            /\ stopRequested' = FALSE
       ELSE UNCHANGED <<stopBtn, loops, stopRequested>>
    /\ UNCHANGED <<web, isMobile, aux, strategies, scanningActive, scanHistory, camera, phase, locals,
                   logsModal, displayed, vibrated>>

\* stopContinuousScanning() (a global function; src/ holds no caller of it).
stopContinuousScanning ==
    /\ Quiet /\ camera = "ready"
    /\ scanningActive' = FALSE
    /\ scanHistory' = <<>>
    /\ stopRequested' = TRUE
    /\ UNCHANGED <<web, isMobile, aux, strategies, camera, loops, phase, locals, ui>>

Next ==
    \/ CameraGranted \/ CameraDenied \/ RequestPermission
    \/ startContinuousScanning
    \/ FrameRecognized \/ FrameDelayElapsed \/ AttemptThrows \/ SceneCompleted
    \/ Finalize \/ LoopEnds \/ ContinueScanning
    \/ WaitElapsed
    \/ stopAndViewLogs \/ resumeScanning \/ closeLogsModal \/ closeResult
    \/ stopContinuousScanning

Spec == Init /\ [][Next]_vars

----------------------------------------------------------------------------
(* One attempt of the loop on every sequence of frame outcomes: from the   *)
(* state in which the first attempt of a loop awaits its last frame, with  *)
(* the outcomes of its frames held in attempt.                             *)

InitAttempt ==
    /\ isMobile \in BOOLEAN
    /\ scanningActive = TRUE
    /\ scanHistory = <<>>
    /\ camera = "ready"
    /\ loops = SetToBag({Lp("recognize", NUM_FRAMES - 1)})
    /\ phase = "idle"
    /\ attempt \in AllAttempts
    /\ frameResults = <<>>
    /\ aggregatedResult = null
    /\ shouldDisplay = null
    /\ shifted = null
    /\ strategies = null
    /\ stopBtn = TRUE
    /\ logsModal = FALSE
    /\ resultModal = FALSE
    /\ displayed = null
    /\ vibrated = "none"
    /\ stopRequested = FALSE
    /\ allocated = {}
    /\ confidences = <<>>
    /\ logs = <<Entry("session_start")>>
    /\ RouterLoaded /\ ServerStarted

AnyAttemptCompleted == AttemptCompleted({attempt})

NextAttempt == AnyAttemptCompleted \/ Finalize

SpecAttempt == InitAttempt /\ [][NextAttempt]_vars

----------------------------------------------------------------------------
(* One attempt frame by frame, with what each strategy does for the frame: *)
(* it throws inside its try block, finds nothing, or returns a result.     *)

\* An exception that leaves a function.
thrown == [kind |-> "thrown"]

skipped == [kind |-> "skipped"]

\* Layer 1 for one frame: skipped (faceApiReady or faceMatcher not set), an
\* exception inside tryFaceRecognition, no detection, or the best label.
FaceRuns ==
    {skipped, [kind |-> "throws"], [kind |-> "noFace"],
     [kind |-> "label", label |-> "unknown"], [kind |-> "label", label |-> "A"]}

\* Layer 2 for one frame: an exception inside tryORBMatching (extractORBFeatures
\* rethrows), no descriptors, or the best reference of matchImage.
OrbRuns ==
    {[kind |-> "throws"], [kind |-> "noDescriptors"]}
    \cup {[kind |-> "best", name |-> n, matches |-> q] :
             n \in Identities, q \in {MIN_ORB_MATCHES - 1, MIN_ORB_MATCHES}}

tryFaceRecognition(run) ==
    IF run.kind = "throws" THEN null
    ELSE IF run.kind = "noFace" THEN null
    ELSE IF run.label # "unknown" THEN [name |-> run.label, match |-> run.label]
    ELSE null

\* A tryORBMatching whose catch rethrows.
tryORBMatching_Rethrows(run) ==
    IF run.kind = "throws" THEN thrown
    ELSE IF run.kind = "noDescriptors" THEN null
    ELSE [name |-> run.name, matches |-> run.matches]

tryORBMatching(run) ==
    IF run.kind = "throws" THEN null
    ELSE IF run.kind = "noDescriptors" THEN null
    ELSE [name |-> run.name, matches |-> run.matches]

\* await recognizePresident(canvas) for the runs f and o of the two layers:
\* its result, or thrown when an exception leaves it.
Classify(f, o) ==
    LET face == IF f = skipped THEN null ELSE tryFaceRecognition(f)
    IN IF face = thrown THEN thrown
       ELSE IF face # null /\ face.match # "unknown" THEN recognizePresident(face, null)
       ELSE LET orb == tryORBMatching(o)
            IN IF orb = thrown THEN thrown ELSE recognizePresident(face, orb)

\* The layers that ran: Layer 2 is skipped when Layer 1 returned a match.
Ran(f, o) ==
    LET face == IF f = skipped THEN null ELSE tryFaceRecognition(f)
    IN [face |-> f,
        orb |-> IF face # null /\ face # thrown /\ face.match # "unknown" THEN skipped ELSE o]

InitFrames ==
    /\ isMobile \in BOOLEAN
    /\ scanningActive = TRUE
    /\ scanHistory = <<>>
    /\ camera = "ready"
    /\ loops = SetToBag({Lp("recognize", 0)})
    /\ phase = "idle"
    /\ attempt = <<>>
    /\ frameResults = <<>>
    /\ aggregatedResult = null
    /\ shouldDisplay = null
    /\ shifted = null
    /\ strategies = null
    /\ stopBtn = TRUE
    /\ logsModal = FALSE
    /\ resultModal = FALSE
    /\ displayed = null
    /\ vibrated = "none"
    /\ stopRequested = FALSE
    /\ allocated = {}
    /\ confidences = <<>>
    /\ logs = <<Entry("session_start")>>
    /\ RouterLoaded /\ ServerStarted

\* recognizePresident settles for a frame that is not the last: its result
\* is kept and the loop waits FRAME_DELAY, or its exception reaches the catch
\* of the loop.
FrameClassified ==
    /\ Quiet
    /\ \E i \in 0..(NUM_FRAMES - 2), f \in FaceRuns, o \in OrbRuns :
          /\ BagIn(Lp("recognize", i), loops)
          /\ strategies' = Ran(f, o)
          /\ IF Classify(f, o) = thrown
             THEN /\ loops' = Move(loops, Lp("recognize", i), Lp("errorWait", SCAN_INTERVAL))
                  /\ UNCHANGED attempt
             ELSE /\ loops' = Move(loops, Lp("recognize", i), Lp("frameDelay", i))
                  /\ attempt' = Append(attempt, Classify(f, o))
    /\ UNCHANGED <<web, isMobile, aux, scanningActive, scanHistory, camera, phase, frameResults,
                   aggregatedResult, shouldDisplay, shifted, ui, stopRequested>>

\* recognizePresident settles for the last frame: the attempt is closed, or
\* the exception reaches the catch of the loop.
LastFrameClassified ==
    /\ Quiet /\ BagIn(Lp("recognize", NUM_FRAMES - 1), loops)
    /\ \E f \in FaceRuns, o \in OrbRuns :
          /\ strategies' = Ran(f, o)
          /\ IF Classify(f, o) = thrown
             THEN /\ loops' = Move(loops, Lp("recognize", NUM_FRAMES - 1), Lp("errorWait", SCAN_INTERVAL))
                  /\ UNCHANGED <<scanHistory, phase, locals>>
             ELSE /\ loops' = Move(loops, Lp("recognize", NUM_FRAMES - 1), InSync)
                  /\ CloseAttempt(Append(attempt, Classify(f, o)))
    /\ UNCHANGED <<web, isMobile, aux, scanningActive, camera, ui, stopRequested>>

NextFrames == FrameClassified \/ FrameDelayElapsed \/ LastFrameClassified

SpecFrames == InitFrames /\ [][NextFrames]_vars

----------------------------------------------------------------------------
(* checkForConfidentMatch on every history of up to HISTORY_SIZE Winners   *)
(* that the attempts of the session produce: from the state in which an    *)
(* attempt has recorded its result, before the check.                      *)

\* The Winners the attempts of the session aggregate to.
SceneWinners ==
    {r \in {aggregateFrameResults(Collect(att)) : att \in Scenes} : r.kind = "winner"}

RECURSIVE SeqsUpTo(_, _)
SeqsUpTo(S, n) ==
    IF n = 0 THEN {<<>>}
    ELSE LET shorter == SeqsUpTo(S, n - 1)
         IN shorter \cup {Append(h, x) : h \in {g \in shorter : Len(g) = n - 1}, x \in S}

InitHistory ==
    /\ isMobile \in BOOLEAN
    /\ scanningActive = TRUE
    /\ scanHistory \in SeqsUpTo(SceneWinners, HISTORY_SIZE)
    /\ camera = "ready"
    /\ loops = SetToBag({InSync})
    /\ phase = "idle"
    /\ attempt = <<>>
    /\ frameResults = <<>>
    /\ aggregatedResult = null
    /\ shouldDisplay = null
    /\ shifted = null
    /\ strategies = null
    /\ stopBtn = TRUE
    /\ logsModal = FALSE
    /\ resultModal = FALSE
    /\ displayed = null
    /\ vibrated = "none"
    /\ stopRequested = FALSE
    /\ allocated = {}
    /\ confidences = <<>>
    /\ logs = <<Entry("session_start")>>
    /\ RouterLoaded /\ ServerStarted

\* const shouldDisplay = checkForConfidentMatch();
HistoryChecked ==
    /\ phase = "idle" /\ BagIn(InSync, loops)
    /\ shouldDisplay' = checkForConfidentMatch(scanHistory)
    /\ phase' = "checked"
    /\ UNCHANGED <<web, isMobile, aux, strategies, scanningActive, scanHistory, camera, loops, attempt,
                   frameResults, aggregatedResult, shifted, ui, stopRequested>>

NextHistory == HistoryChecked \/ Finalize

SpecHistory == InitHistory /\ [][NextHistory]_vars

----------------------------------------------------------------------------
(* matchImage: the best reference by Lowe-validated matches *)

\* referenceData, in its order.
References == <<"A", "B">>

\* The loop over referenceData up to reference k: goodMatches[i] is the count
\* of validated matches against reference i; a reference replaces the best so
\* far only with a strictly greater count, and bestScore starts at 0.
RECURSIVE BestMatchUpTo(_, _)
BestMatchUpTo(goodMatches, k) ==
    IF k = 0 THEN null
    ELSE LET bestMatch == BestMatchUpTo(goodMatches, k - 1)
             bestScore == IF bestMatch = null THEN 0 ELSE bestMatch.matches
         IN IF goodMatches[k] > bestScore
            THEN [kind |-> "match", name |-> References[k], matches |-> goodMatches[k]]
            ELSE bestMatch

matchImage(goodMatches) == BestMatchUpTo(goodMatches, Len(References))

----------------------------------------------------------------------------
(* The session with the upload path of the permission prompt *)

\* Validated match counts of an uploaded image against one reference.
UploadCounts ==
    {0, VIBRATE_MIN_MATCHES - 1, VIBRATE_MIN_MATCHES,
     DISPLAY_MIN_MATCHES - 1, DISPLAY_MIN_MATCHES}

\* What the timer callback of processUploadedFile meets: extractORBFeatures
\* throws, or the counts matchImage finds.
UploadRuns ==
    {[kind |-> "throws"]}
    \cup {[kind |-> "counts", goodMatches |-> g] : g \in [1..Len(References) -> UploadCounts]}

Upload == Lp("upload", 0)

\* Click on #use-upload-btn and choice of a file: the permission prompt is
\* hidden and processUploadedFile starts reading the file.
FileChosen ==
    /\ Quiet /\ camera = "denied" /\ Room
    /\ camera' = "upload"
    /\ loops' = Put(loops, Upload)
    /\ UNCHANGED <<web, isMobile, aux, strategies, scanningActive, scanHistory, phase, locals, ui, stopRequested>>

\* The timer callback of processUploadedFile: features, match, displayResult
\* and the feedback; or the catch.
processUploadedFile ==
    /\ Quiet /\ BagIn(Upload, loops)
    /\ \E run \in UploadRuns :
          IF run.kind = "throws"
          THEN /\ vibrated' = "error"
               /\ UNCHANGED <<displayed, confidences, resultModal>>
          ELSE /\ displayResult(matchImage(run.goodMatches))
               /\ vibrated' = FeedbackFor(matchImage(run.goodMatches))
    /\ phase' = "uploaded"
    /\ UNCHANGED <<web, isMobile, allocated, logs, strategies, scanningActive, scanHistory, camera,
                   loops, locals, stopBtn, logsModal, stopRequested>>

\* The callback returns.
UploadEnds ==
    /\ phase = "uploaded"
    /\ loops' = Take(loops, Upload)
    /\ phase' = "idle"
    /\ displayed' = null
    /\ vibrated' = "none"
    /\ confidences' = <<>>
    /\ UNCHANGED <<web, isMobile, allocated, logs, strategies, scanningActive, scanHistory, camera,
                   locals, stopBtn, logsModal, resultModal, stopRequested>>

NextUpload == Next \/ FileChosen \/ processUploadedFile \/ UploadEnds

SpecUpload == Init /\ [][NextUpload]_vars

----------------------------------------------------------------------------
(* One call of recognizePresident step by step, with the native (OpenCV)   *)
(* objects it creates and deletes.  The call is synchronous from Layer 2   *)
(* on; its steps are separated to follow what is allocated at each point.  *)

\* bestMatch.distance of FaceMatcher, in hundredths: the range [0, 2].
FaceDistances == {0, 59, 100, 200}

\* Layer 1 for one frame, with the distance of the best label.
FaceRunsWithDistance ==
    {skipped, [kind |-> "throws"], [kind |-> "noFace"]}
    \cup {[kind |-> "label", label |-> l, distance |-> d] :
             l \in {"unknown", "A"}, d \in FaceDistances}

\* confidence: Math.round((1 - Math.min(result.distance, 1)) * 100)
FaceConfidence(distance) == Round(100 * (100 - Min(distance, 100)), 100)

\* The confidence values recognizePresident computes for the Layer 1 run f.
FrameConfidences(f) ==
    IF f # skipped /\ tryFaceRecognition(f) # null
    THEN <<FaceConfidence(f.distance)>> ELSE <<>>

\* extractORBFeatures: the call that throws, or the rows of the descriptors.
ExtractRuns ==
    {[kind |-> "throws", at |-> c] : c \in {"imread", "cvtColor", "detectAndCompute"}}
    \cup {[kind |-> "features", rows |-> r] : r \in {0, orbFeatures}}

\* The native objects extractORBFeatures has created and not deleted when it
\* is left: src, gray and orb are deleted on the normal path only, the mask
\* argument new cv.Mat() has no name to delete it by.
extractORBFeatures(run) ==
    IF run.kind = "throws"
    THEN IF run.at = "imread" THEN {}
         ELSE IF run.at = "cvtColor" THEN {"src", "gray"}
         ELSE {"src", "gray", "orb", "keypoints", "descriptors", "mask"}
    ELSE {"keypoints", "descriptors", "mask"}

\* knnMatch against one reference: it throws, or the validated matches.
CompareRuns == {thrown} \cup {[kind |-> "count", goodMatches |-> q] : q \in {0} \cup OrbCounts}

Pc(pc) == Lp(pc, 0)

InitClassify ==
    /\ isMobile \in BOOLEAN
    /\ scanningActive = TRUE
    /\ scanHistory = <<>>
    /\ camera = "ready"
    /\ loops = SetToBag({Pc("layer1")})
    /\ phase = "idle"
    /\ attempt = <<>>
    /\ frameResults = <<>>
    /\ aggregatedResult = null
    /\ shouldDisplay = null
    /\ shifted = null
    /\ strategies = null
    /\ stopBtn = TRUE
    /\ logsModal = FALSE
    /\ resultModal = FALSE
    /\ displayed = null
    /\ vibrated = "none"
    /\ stopRequested = FALSE
    /\ allocated = {}
    /\ confidences = <<>>
    /\ logs = <<Entry("session_start")>>
    /\ RouterLoaded /\ ServerStarted

classifyFrame == <<web, isMobile, scanningActive, scanHistory, camera, phase, frameResults,
                   aggregatedResult, shouldDisplay, shifted, ui, stopRequested, logs>>

\* A Layer 1 that hands every frame on to Layer 2.
FaceRecognitionSettled_FallsThrough ==
    /\ BagIn(Pc("layer1"), loops)
    /\ \E f \in FaceRunsWithDistance :
          /\ strategies' = [face |-> f, orb |-> [kind |-> "pending"]]
          /\ loops' = Move(loops, Pc("layer1"), Pc("layer2"))
          /\ UNCHANGED <<attempt, confidences>>
    /\ UNCHANGED <<classifyFrame, allocated>>

\* Layer 1: skipped when face-api is not ready; otherwise tryFaceRecognition
\* settles, and a result is returned at once.
FaceRecognitionSettled ==
    /\ BagIn(Pc("layer1"), loops)
    /\ \E f \in FaceRunsWithDistance :
          LET result == IF f = skipped THEN null ELSE tryFaceRecognition(f)
          IN IF result # null
             THEN /\ strategies' = [face |-> f, orb |-> skipped]
                  /\ attempt' = Append(attempt, recognizePresident(result, null))
                  /\ confidences' = FrameConfidences(f)
                  /\ loops' = Move(loops, Pc("layer1"), Pc("returned"))
             ELSE /\ strategies' = [face |-> f, orb |-> [kind |-> "pending"]]
                  /\ loops' = Move(loops, Pc("layer1"), Pc("layer2"))
                  /\ UNCHANGED <<attempt, confidences>>
    /\ UNCHANGED <<classifyFrame, allocated>>

\* tryORBMatching up to the call of matchImage: extractORBFeatures throws
\* (the catch returns null), finds no descriptors (both features are deleted,
\* null is returned), or matchImage creates its matcher.
FeaturesExtracted ==
    /\ BagIn(Pc("layer2"), loops)
    /\ \E run \in ExtractRuns :
          IF run.kind = "throws"
          THEN /\ allocated' = allocated \cup extractORBFeatures(run)
               /\ strategies' = [strategies EXCEPT !.orb = [kind |-> "throws"]]
               /\ attempt' = Append(attempt, recognizePresident(null, null))
               /\ loops' = Move(loops, Pc("layer2"), Pc("returned"))
          ELSE IF run.rows = 0
          THEN /\ allocated' = (allocated \cup extractORBFeatures(run))
                                   \ {"descriptors", "keypoints"}
               /\ strategies' = [strategies EXCEPT !.orb = [kind |-> "noDescriptors"]]
               /\ attempt' = Append(attempt, recognizePresident(null, null))
               /\ loops' = Move(loops, Pc("layer2"), Pc("returned"))
          ELSE /\ allocated' = allocated \cup extractORBFeatures(run) \cup {"matcher"}
               /\ strategies' = [strategies EXCEPT
                                    !.orb = [kind |-> "matching", goodMatches |-> <<>>]]
               /\ loops' = Move(loops, Pc("layer2"), Lp("knnMatch", 1))
               /\ UNCHANGED attempt
    /\ UNCHANGED <<classifyFrame, confidences>>

\* One round of the loop of matchImage: matches is created, knnMatch throws
\* (the catch of tryORBMatching returns null) or the validated matches are
\* counted and matches is deleted.
ReferenceCompared ==
    /\ \E k \in 1..Len(References), run \in CompareRuns :
          /\ BagIn(Lp("knnMatch", k), loops)
          /\ IF run = thrown
             THEN /\ allocated' = allocated \cup {"matches"}
                  /\ strategies' = [strategies EXCEPT !.orb = [kind |-> "throws"]]
                  /\ attempt' = Append(attempt, recognizePresident(null, null))
                  /\ loops' = Move(loops, Lp("knnMatch", k), Pc("returned"))
             ELSE /\ strategies' = [strategies EXCEPT !.orb.goodMatches =
                                       Append(strategies.orb.goodMatches, run.goodMatches)]
                  /\ loops' = Move(loops, Lp("knnMatch", k),
                                   IF k < Len(References) THEN Lp("knnMatch", k + 1)
                                   ELSE Pc("matched"))
                  /\ UNCHANGED <<allocated, attempt>>
    /\ UNCHANGED <<classifyFrame, confidences>>

\* After the loop: matcher.delete(), tryORBMatching deletes the features and
\* recognizePresident tests the best match.
MatchReturned ==
    /\ BagIn(Pc("matched"), loops)
    /\ allocated' = allocated \ {"matcher", "descriptors", "keypoints"}
    /\ strategies' = [strategies EXCEPT !.orb.kind = "matched"]
    /\ attempt' = Append(attempt,
                         recognizePresident(null, matchImage(strategies.orb.goodMatches)))
    /\ loops' = Move(loops, Pc("matched"), Pc("returned"))
    /\ UNCHANGED <<classifyFrame, confidences>>

NextClassify ==
    FaceRecognitionSettled \/ FeaturesExtracted \/ ReferenceCompared \/ MatchReturned

SpecClassify == InitClassify /\ [][NextClassify]_vars

----------------------------------------------------------------------------
(* captureAndIdentify: one single-shot capture, from the click on          *)
(* #capture-btn, with any state of the scanning session around it.         *)

\* Layer 2 for one frame of a capture, up to the most matches an image has.
CaptureOrbRuns ==
    {[kind |-> "throws"], [kind |-> "noDescriptors"]}
    \cup {[kind |-> "best", name |-> n, matches |-> q] : n \in Identities, q \in OrbCounts}

\* What recognizePresident can yield for one frame: its result with the
\* confidence values computed on the way.
CaptureOutcomes ==
    {[result |-> Classify(f, o), confidences |-> FrameConfidences(f)] :
        f \in FaceRunsWithDistance, o \in CaptureOrbRuns}

\* The scan history the capture meets: empty, or one Winner of the loop.
CaptureHistories == SeqsUpTo({aggregateFrameResults(Collect(Steady(Face("A"))))}, 1)

InitCapture ==
    /\ isMobile \in BOOLEAN
    /\ scanningActive \in BOOLEAN
    /\ scanHistory \in CaptureHistories
    /\ camera = "ready"
    /\ loops = SetToBag({Lp("captureRecognize", 0)})
    /\ phase = "idle"
    /\ attempt = <<>>
    /\ frameResults = <<>>
    /\ aggregatedResult = null
    /\ shouldDisplay = null
    /\ shifted = null
    /\ strategies = null
    /\ stopBtn = FALSE
    /\ logsModal = FALSE
    /\ resultModal = FALSE
    /\ displayed = null
    /\ vibrated = "none"
    /\ stopRequested = FALSE
    /\ allocated = {}
    /\ confidences = <<>>
    /\ logs = <<Entry("session_start")>>
    /\ RouterLoaded /\ ServerStarted

\* recognizePresident settles for a frame that is not the last: a result is
\* pushed to frameResults and the capture waits FRAME_DELAY.
CaptureFrameClassified ==
    /\ Quiet
    /\ \E i \in 0..(CAPTURE_NUM_FRAMES - 2), frame \in CaptureOutcomes :
          /\ BagIn(Lp("captureRecognize", i), loops)
          /\ loops' = Move(loops, Lp("captureRecognize", i), Lp("captureDelay", i))
          /\ attempt' = Append(attempt, frame.result)
          /\ confidences' = frame.confidences
    /\ UNCHANGED <<web, isMobile, allocated, logs, strategies, scanningActive, scanHistory, camera,
                   phase, frameResults, aggregatedResult, shouldDisplay, shifted, ui,
                   stopRequested>>

\* The delay between two frames elapses: the next frame is drawn.
CaptureDelayElapsed ==
    /\ Quiet
    /\ \E i \in 0..(CAPTURE_NUM_FRAMES - 2) :
          /\ BagIn(Lp("captureDelay", i), loops)
          /\ loops' = Move(loops, Lp("captureDelay", i), Lp("captureRecognize", i + 1))
    /\ confidences' = <<>>
    /\ UNCHANGED <<web, isMobile, allocated, logs, strategies, scanningActive, scanHistory, camera,
                   phase, locals, ui, stopRequested>>

\* A last frame that also records the aggregate in the scan history.
CaptureLastFrameClassified_Records ==
    /\ Quiet /\ BagIn(Lp("captureRecognize", CAPTURE_NUM_FRAMES - 1), loops)
    /\ \E frame \in CaptureOutcomes :
          /\ attempt' = Append(attempt, frame.result)
          /\ confidences' = frame.confidences
    /\ frameResults' = Collect(attempt')
    /\ aggregatedResult' = aggregateFrameResults(frameResults')
    /\ scanHistory' = RecordAttempt(scanHistory, aggregatedResult')
    /\ phase' = "aggregated"
    /\ UNCHANGED <<web, isMobile, allocated, logs, strategies, scanningActive, camera,
                   loops, shouldDisplay, shifted, ui, stopRequested>>

\* recognizePresident settles for the last frame: the frame results are
\* aggregated.
CaptureLastFrameClassified ==
    /\ Quiet /\ BagIn(Lp("captureRecognize", CAPTURE_NUM_FRAMES - 1), loops)
    /\ \E frame \in CaptureOutcomes :
          /\ attempt' = Append(attempt, frame.result)
          /\ confidences' = frame.confidences
    /\ frameResults' = Collect(attempt')
    /\ aggregatedResult' = aggregateFrameResults(frameResults')
    /\ phase' = "aggregated"
    /\ UNCHANGED <<web, isMobile, allocated, logs, strategies, scanningActive, scanHistory, camera,
                   loops, shouldDisplay, shifted, ui, stopRequested>>

\* displayResult(aggregatedResult) and the feedback by the result.
CaptureDisplayed ==
    /\ phase = "aggregated"
    /\ displayResult(aggregatedResult)
    /\ vibrated' = FeedbackFor(aggregatedResult)
    /\ phase' = "captured"
    /\ UNCHANGED <<web, isMobile, allocated, logs, strategies, scanningActive, scanHistory, camera,
                   loops, locals, stopBtn, logsModal, stopRequested>>

\* Drawing or classifying a frame throws: the catch reports the error.
CaptureThrows ==
    /\ Quiet
    /\ \E i \in 0..(CAPTURE_NUM_FRAMES - 1) : BagIn(Lp("captureRecognize", i), loops)
    /\ vibrated' = "error"
    /\ phase' = "captured"
    /\ UNCHANGED <<web, isMobile, aux, strategies, scanningActive, scanHistory, camera, loops,
                   locals, stopBtn, logsModal, resultModal, displayed, stopRequested>>

\* captureAndIdentify returns.
CaptureEnds ==
    /\ phase = "captured"
    /\ loops' = EmptyBag
    /\ phase' = "idle"
    /\ ResetLocals
    /\ displayed' = null
    /\ vibrated' = "none"
    /\ confidences' = <<>>
    /\ UNCHANGED <<web, isMobile, allocated, logs, strategies, scanningActive, scanHistory, camera,
                   stopBtn, logsModal, resultModal, stopRequested>>

NextCapture ==
    \/ CaptureFrameClassified \/ CaptureDelayElapsed \/ CaptureLastFrameClassified
    \/ CaptureDisplayed \/ CaptureThrows \/ CaptureEnds

SpecCapture == InitCapture /\ [][NextCapture]_vars

----------------------------------------------------------------------------
(* DiagnosticLogger: the log list, from DiagnosticLogger.init() at load    *)
(* through the log calls of a session.  An entry is kept by its event; its *)
(* timestamp and data are not read by the logger.                          *)

InitLogger ==
    /\ isMobile \in BOOLEAN
    /\ scanningActive = FALSE
    /\ scanHistory = <<>>
    /\ camera = "requesting"
    /\ loops = EmptyBag
    /\ phase = "idle"
    /\ attempt = <<>>
    /\ frameResults = <<>>
    /\ aggregatedResult = null
    /\ shouldDisplay = null
    /\ shifted = null
    /\ strategies = null
    /\ stopBtn = FALSE
    /\ logsModal = FALSE
    /\ resultModal = FALSE
    /\ displayed = null
    /\ vibrated = "none"
    /\ stopRequested = FALSE
    /\ allocated = {}
    /\ confidences = <<>>
    /\ logs = <<Entry("session_start")>>
    /\ RouterLoaded /\ ServerStarted

\* DiagnosticLogger.log(event, data): this.logs.push(entry).
DiagnosticLogger_log(event) ==
    /\ Len(logs) < MaxLogs
    /\ logs' = Append(logs, Entry(event))
    /\ UNCHANGED <<web, isMobile, allocated, confidences, strategies, scanningActive, scanHistory,
                   camera, loops, phase, locals, ui, stopRequested>>

\* The log call every classified frame starts with.
NextLogger == DiagnosticLogger_log("frame_recognition_start")

SpecLogger == InitLogger /\ [][NextLogger]_vars

-----------------------------------------------------------------------------
(* router.js: navigation between the routes of the page, each rendering    *)
(* its template into #app.  The routes are the two the project documents:  *)
(* the gallery, whose template is the file routes/homepage.html, and the   *)
(* scanner, whose template is inline in index.html.  A call of handleRoute *)
(* runs to its first await; for an inline template the rest follows in the *)
(* same task, for a template file it follows when fetch and then           *)
(* response.text() settle, in whatever order the loads in flight settle.   *)

\* The variables of the scanner page, which the router does not touch.
page == <<isMobile, scanningActive, scanHistory, camera, loops, phase, locals,
          strategies, ui, stopRequested, aux>>

\* templateSource.startsWith('#'): a selector of an inline template, else a file.
Selector(source) == [kind |-> "inline", source |-> source]
File(source) == [kind |-> "file", source |-> source]

\* Router.addRoute(path, { template })
addRoute(path, template) == [path |-> path, template |-> template]

routes == <<addRoute("/", File("routes/homepage.html")),
            addRoute("/scan", Selector("#scan-template"))>>

\* The paths navigated to (one has no route) and the states passed along.
Paths == {"/", "/scan", "/nowhere"}
RouteStates == {null, [kind |-> "match"]}

\* What renderTemplate leaves in #app when the load fails.
FailedToLoadPage == "Failed to load page"

\* routes.find((route) => route.pattern.test(path)): patterns match exactly.
matchedRoute(path) ==
    LET hits == {i \in 1..Len(routes) : routes[i].path = path}
    IN IF hits = {} THEN null
       ELSE routes[CHOOSE i \in hits : \A j \in hits : i <= j]

pushState(entries, entry) == Append(entries, entry)
replaceState(entries, entry) == [entries EXCEPT ![Len(entries)] = entry]

\* A call of onLeave or onEnter of the route at path, made by the call of
\* handleRoute numbered nav (0 for the call of init, then the navigate calls).
Hook(name, path, nav) == [hook |-> name, path |-> path, nav |-> nav]

\* handleRoute(path, state) up to its first await, entries being
\* window.history as the caller left it.  Without a route it navigates to
\* '/' with replace and returns.  With one it calls onLeave of the current
\* route, then renders: an inline template at once, followed by the update
\* of currentRoute and currentState and by onEnter; a template file by a
\* fetch that leaves the call suspended.
handleRoute(entries, path, state, nav) ==
    LET found == matchedRoute(path)
        entries2 == IF found = null
                    THEN replaceState(entries, [path |-> "/", state |-> null])
                    ELSE entries
        route == IF found = null THEN matchedRoute("/") ELSE found
        state2 == IF found = null THEN null ELSE state
        left == IF currentRoute # null
                THEN <<Hook("onLeave", currentRoute.path, nav)>> ELSE <<>>
    IN /\ historyEntries' = entries2
       /\ IF route.template.kind = "file"
          THEN /\ pendingRoutes' = pendingRoutes \cup
                     {[nav |-> nav, route |-> route, state |-> state2, stage |-> "fetch"]}
               /\ lifecycle' = lifecycle \o left
               /\ UNCHANGED <<currentRoute, currentState, appHtml>>
          ELSE /\ appHtml' = route.template.source
               /\ currentRoute' = route
               /\ currentState' = state2
               /\ lifecycle' = lifecycle \o left \o <<Hook("onEnter", route.path, nav)>>
               /\ UNCHANGED pendingRoutes

\* Router.init(): the listeners are installed and the initial route handled.
Router_init ==
    /\ ~routerReady
    /\ routerReady' = TRUE
    /\ handleRoute(historyEntries, "/", null, 0)
    /\ UNCHANGED <<navigations, page, server>>

\* Router.navigate(path, { replace, state }), from a click on an internal
\* link or from a page controller.
navigate(path, replace, state) ==
    /\ routerReady /\ navigations < MaxNavigations
    /\ navigations' = navigations + 1
    /\ LET entry == [path |-> path, state |-> state]
       IN handleRoute(IF replace THEN replaceState(historyEntries, entry)
                                 ELSE pushState(historyEntries, entry),
                      path, state, navigations')
    /\ UNCHANGED <<routerReady, page, server>>

\* renderTemplate returns to the suspended call p of handleRoute with html
\* in #app: currentRoute and currentState are updated and onEnter is called.
handleRoute_Resumed(p, html) ==
    /\ appHtml' = html
    /\ currentRoute' = p.route
    /\ currentState' = p.state
    /\ lifecycle' = Append(lifecycle, Hook("onEnter", p.route.path, p.nav))
    /\ pendingRoutes' = pendingRoutes \ {p}
    /\ UNCHANGED <<routerReady, historyEntries, navigations, page, server>>

\* await fetch(templateSource) settles: with a response that is ok the call
\* goes on to read the text; otherwise the catch block renders the failure.
FetchSettled(p, ok) ==
    /\ p \in pendingRoutes /\ p.stage = "fetch"
    /\ IF ok
       THEN /\ pendingRoutes' = (pendingRoutes \ {p}) \cup {[p EXCEPT !.stage = "text"]}
            /\ UNCHANGED <<routerReady, currentRoute, currentState, historyEntries,
                           appHtml, navigations, lifecycle, page, server>>
       ELSE handleRoute_Resumed(p, FailedToLoadPage)

\* await response.text() settles.
TextSettled(p, ok) ==
    /\ p \in pendingRoutes /\ p.stage = "text"
    /\ handleRoute_Resumed(p, IF ok THEN p.route.template.source ELSE FailedToLoadPage)

InitRouter == Init /\ ~isMobile

NextRouter ==
    \/ Router_init
    \/ \E path \in Paths, replace \in BOOLEAN, state \in RouteStates :
          navigate(path, replace, state)
    \/ \E p \in pendingRoutes, ok \in BOOLEAN : FetchSettled(p, ok)
    \/ \E p \in pendingRoutes, ok \in BOOLEAN : TextSettled(p, ok)

SpecRouter == InitRouter /\ [][NextRouter]_vars

-----------------------------------------------------------------------------
(* server.js: the in-memory store of client logs behind POST /api/logs.    *)
(* logStorage.sessions is a Map; it is kept as the sequence of its values  *)
(* in insertion order, the order Array.from and the stable sort of         *)
(* getOrCreateSession see.  Date.now() does not decrease.  No dashboard    *)
(* client is connected, so broadcastLog writes to nobody.                  *)

\* A request body without sessionId or without event carries a falsy value in
\* its place: 0 for the session id, "" for the event.  A timestamp of 0 is
\* a body without timestamp.
RequestIds == {0, 1, maxSessions - 1, maxSessions, maxSessions + 1}
Events == {"", "session_start", "scan_result"}
Timestamps == {0, 7}

\* The steps by which Date.now() advances between two events.
TimeSteps == {1, maxSessionAge}

EmptyObject == [kind |-> "empty"]

\* session.stats.eventCounts, a count of 0 standing for an absent key.
NoEventCounts == [e \in Events \ {""} |-> 0]

\* stats of a session with n events counted in c, created at t0, active at t.
Stats(n, c, t0, t) ==
    [totalEvents |-> n, eventCounts |-> c, startTime |-> t0, lastActivity |-> t]

\* The value getOrCreateSession stores for a new session id at time t.
newSession(sessionId, t) ==
    [sessionId |-> sessionId, logs |-> <<>>, metadata |-> EmptyObject,
     stats |-> Stats(0, NoEventCounts, t, t)]

\* const logEntry = { sessionId, event, timestamp: timestamp || Date.now(), ...data }
logEntry(sessionId, event, timestamp, t) ==
    [sessionId |-> sessionId, event |-> event,
     timestamp |-> IF timestamp # 0 THEN timestamp ELSE t]

\* logStorage.sessions.has(sessionId), .get(sessionId), .delete(sessionId)
Has(store, sessionId) == \E i \in 1..Len(store) : store[i].sessionId = sessionId
Get(store, sessionId) ==
    store[CHOOSE i \in 1..Len(store) : store[i].sessionId = sessionId]
Delete(store, sessionId) ==
    LET Keep(s) == s.sessionId # sessionId IN SelectSeq(store, Keep)

\* The write through the reference getOrCreateSession returned.
Put_session(store, session) ==
    [i \in 1..Len(store) |->
        IF store[i].sessionId = session.sessionId THEN session ELSE store[i]]

\* A sort by lastActivity in descending order.
oldestSession_Descending(store) ==
    store[CHOOSE i \in 1..Len(store) : \A j \in 1..Len(store) :
            \/ store[i].stats.lastActivity > store[j].stats.lastActivity
            \/ store[i].stats.lastActivity = store[j].stats.lastActivity /\ i <= j]

\* Array.from(sessions.values()).sort((a, b) => a.stats.lastActivity -
\* b.stats.lastActivity)[0]: the sort is stable, so among the sessions of
\* the least lastActivity it is the one inserted first.
oldestSession(store) ==
    store[CHOOSE i \in 1..Len(store) : \A j \in 1..Len(store) :
            \/ store[i].stats.lastActivity < store[j].stats.lastActivity
            \/ store[i].stats.lastActivity = store[j].stats.lastActivity /\ i <= j]

\* The store getOrCreateSession(sessionId) leaves at time t.
getOrCreateSession(store, sessionId, t) ==
    IF Has(store, sessionId) THEN store
    ELSE LET added == Append(store, newSession(sessionId, t))
         IN IF Len(added) > maxSessions
            THEN Delete(added, oldestSession(added).sessionId)
            ELSE added

\* session.logs.push(logEntry); if (session.logs.length > maxLogsPerSession) session.logs.shift()
pushLog(sessionLogs, entry) ==
    LET pushed == Append(sessionLogs, entry)
    IN IF Len(pushed) > maxLogsPerSession THEN Tail(pushed) ELSE pushed

\* updateSessionStats(session, event) at time t.
updateSessionStats(stats, event, t) ==
    Stats(stats.totalEvents + 1,
          [stats.eventCounts EXCEPT ![event] = @ + 1],
          stats.startTime, t)

\* The session after the handler has stored the log of the request.
Logged(session, event, timestamp, t) ==
    [sessionId |-> session.sessionId,
     logs |-> pushLog(session.logs, logEntry(session.sessionId, event, timestamp, t)),
     metadata |-> IF event = "session_start"
                  THEN [kind |-> "metadata",
                        startTime |-> IF timestamp # 0 THEN timestamp ELSE t]
                  ELSE session.metadata,
     stats |-> updateSessionStats(session.stats, event, t)]

\* app.post('/api/logs'): 400 without sessionId or event; otherwise the log
\* is stored in its session and the answer is 200; an exception on the way
\* (the session getOrCreateSession returns is undefined) is answered by 500.
POST_api_logs(sessionId, event, timestamp) ==
    /\ requests < MaxRequests
    /\ requests' = requests + 1
    /\ IF sessionId = 0 \/ event = ""
       THEN response' = 400 /\ UNCHANGED sessions
       ELSE LET store == getOrCreateSession(sessions, sessionId, now)
            IN IF ~Has(store, sessionId)
               THEN sessions' = store /\ response' = 500
               ELSE /\ sessions' = Put_session(store,
                                       Logged(Get(store, sessionId), event, timestamp, now))
                    /\ response' = 200
    /\ UNCHANGED <<now, router, page>>

\* The periodic cleanup (setInterval): sessions idle for more than
\* maxSessionAge are deleted.
cleanupOldSessions ==
    /\ LET Fresh(s) == ~(now - s.stats.lastActivity > maxSessionAge)
       IN sessions' = SelectSeq(sessions, Fresh)
    /\ UNCHANGED <<now, requests, response, router, page>>

\* Date.now() when the last of the logs of the loaded store (below) arrived.
LoadedAt == maxSessions - 1 + maxLogsPerSession - 2

\* Time passes on the server.
TimePasses ==
    /\ now < LoadedAt + MaxTicks
    /\ \E d \in TimeSteps : now' = now + d
    /\ UNCHANGED <<sessions, requests, response, router, page>>

\* The store after maxSessions - 1 clients have logged: each but the last
\* sent its session_start, at time i for session i; the last one has logged
\* maxLogsPerSession - 1 events, one per millisecond.
OneLog(i) == <<logEntry(i, "session_start", 0, i)>>
BusyLogs(i) ==
    [k \in 1..(maxLogsPerSession - 1) |->
        logEntry(i, IF k = 1 THEN "session_start" ELSE "scan_result", 0, i + k - 1)]
LoadedStore ==
    [i \in 1..(maxSessions - 1) |->
        IF i < maxSessions - 1
        THEN [sessionId |-> i, logs |-> OneLog(i),
              metadata |-> [kind |-> "metadata", startTime |-> i],
              stats |-> Stats(1, [NoEventCounts EXCEPT !["session_start"] = 1], i, i)]
        ELSE [sessionId |-> i, logs |-> BusyLogs(i),
              metadata |-> [kind |-> "metadata", startTime |-> i],
              stats |-> Stats(maxLogsPerSession - 1,
                              [NoEventCounts EXCEPT !["session_start"] = 1,
                                                    !["scan_result"] = maxLogsPerSession - 2],
                              i, LoadedAt)]]

InitServer ==
    /\ isMobile = FALSE
    /\ scanningActive = FALSE
    /\ scanHistory = <<>>
    /\ camera = "requesting"
    /\ loops = EmptyBag
    /\ phase = "idle"
    /\ attempt = <<>>
    /\ frameResults = <<>>
    /\ aggregatedResult = null
    /\ shouldDisplay = null
    /\ shifted = null
    /\ strategies = null
    /\ stopBtn = FALSE
    /\ logsModal = FALSE
    /\ resultModal = FALSE
    /\ displayed = null
    /\ vibrated = "none"
    /\ stopRequested = FALSE
    /\ allocated = {}
    /\ confidences = <<>>
    /\ logs = <<Entry("session_start")>>
    /\ RouterLoaded
    /\ sessions = LoadedStore
    /\ now = LoadedAt
    /\ requests = 0
    /\ response = 0

NextServer ==
    \/ \E sessionId \in RequestIds, event \in Events, timestamp \in Timestamps :
          POST_api_logs(sessionId, event, timestamp)
    \/ cleanupOldSessions
    \/ TimePasses

SpecServer == InitServer /\ [][NextServer]_vars

----------------------------------------------------------------------------
(* Properties *)

\* Loop instances that are inside an attempt (capturing frames or closing it).
InAttempt(s) == s.pc \in {"recognize", "frameDelay", "sync"}

RECURSIVE CountIn(_, _)
CountIn(b, S) ==
    IF S = {} THEN 0
    ELSE LET s == CHOOSE x \in S : TRUE
         IN CopiesIn(s, b) + CountIn(b, S \ {s})

AttemptsInProgress == CountIn(loops, {s \in BagToSet(loops) : InAttempt(s)})

\* Number of frames of an attempt that matched identity n, frames without a
\* result counted in the attempt's length but for no identity.
FramesOf(att, n) == Cardinality({i \in 1..Len(att) : att[i] # null /\ att[i].name = n})

QualitiesOf(att, n) == {att[i].matches : i \in {j \in 1..Len(att) : att[j] # null /\ att[j].name = n}}

AllNoResult(att) == \A i \in 1..Len(att) : att[i] = null

\* p is x / n rounded to the nearest integer, halves up.
IsRounded(p, x, n) == 2 * p * n - n <= 2 * x /\ 2 * x < 2 * p * n + n

\* The first two elements of a sequence, or all of it when it is shorter.
TopTwo(c) == IF Len(c) > 2 THEN SubSeq(c, 1, 2) ELSE c

Aggregated == phase \in {"checked", "finalized"}

\* C1: at most one scan attempt is in progress at any time, under every
\* interleaving of the start, stop, resume and close requests with the
\* suspension points of the loop.
C1_OneAttemptAtATime == AttemptsInProgress <= 1

\* C2: after a stop request made while an attempt is in progress, no result
\* is handed to the display before the next start request.
C2_NoResultAfterStop == ~(phase = "finalized" /\ stopRequested)

\* C3: the consensus of a Winner is its votes over the frames captured in the
\* attempt, frames without a result included, so a Winner has at least 80%
\* of the frames of the attempt.
C3_ConsensusOverCapturedFrames ==
    (Aggregated /\ aggregatedResult.kind = "winner") =>
        /\ aggregatedResult.totalFrames = Len(attempt)
        /\ IsRounded(aggregatedResult.consensus, 100 * aggregatedResult.voteCount, Len(attempt))
        /\ 100 * aggregatedResult.voteCount >= CONSENSUS_THRESHOLD_PCT * Len(attempt)

\* C4: without a perfect single scan, when history has at least 2 entries, at
\* least 2/3 of them share the identity of the latest one and the latest has
\* consensus >= 80, checkForConfidentMatch returns the latest entry.
C4_TwoOfThreeRule ==
    (/\ phase = "checked"
     /\ Len(scanHistory) >= 2
     /\ ~PerfectSingleScan(scanHistory[Len(scanHistory)])
     /\ 3 * NameCount(scanHistory, scanHistory[Len(scanHistory)].name) >= 2 * Len(scanHistory)
     /\ scanHistory[Len(scanHistory)].consensus >= 80)
    => shouldDisplay = scanHistory[Len(scanHistory)]

\* C5: the candidate ranked first by score has the maximum voteCount among
\* all candidates, for every match quality the classifiers can return.
C5_VotesArePrimaryKey ==
    (Aggregated /\ frameResults # <<>>) =>
        \A j \in 1..Len(Candidates(frameResults)) :
            Candidates(frameResults)[1].voteCount >= Candidates(frameResults)[j].voteCount

\* C6: an identity matched in at least 80% of the frames of the attempt and
\* leading every other identity by more than 1 vote is returned as Winner,
\* with voteCount its frames, totalFrames the attempt length, consensus the
\* rounded percentage and matches the maximum quality among its frames.
C6_ClearLeaderWins ==
    Aggregated =>
        \A n \in Identities :
            (/\ 100 * FramesOf(attempt, n) >= CONSENSUS_THRESHOLD_PCT * Len(attempt)
             /\ \A m \in Identities \ {n} : FramesOf(attempt, n) - FramesOf(attempt, m) > TIE_MARGIN)
            => /\ aggregatedResult.kind = "winner"
               /\ aggregatedResult.name = n
               /\ aggregatedResult.voteCount = FramesOf(attempt, n)
               /\ aggregatedResult.totalFrames = Len(attempt)
               /\ IsRounded(aggregatedResult.consensus, 100 * FramesOf(attempt, n), Len(attempt))
               /\ aggregatedResult.matches \in QualitiesOf(attempt, n)
               /\ \A q \in QualitiesOf(attempt, n) : q <= aggregatedResult.matches

\* C7: when the top-ranked candidate has fewer than 80% of the frames of the
\* attempt, the result is Inconclusive with reason insufficient_consensus,
\* with or without a runner-up, and topCandidates is the winner followed by
\* the runner-up when there is one.
C7_InsufficientConsensusFirst ==
    (/\ Aggregated
     /\ frameResults # <<>>
     /\ 100 * Candidates(frameResults)[1].voteCount < CONSENSUS_THRESHOLD_PCT * Len(attempt))
    => /\ aggregatedResult.kind = "inconclusive"
       /\ aggregatedResult.reason = "insufficient_consensus"
       /\ aggregatedResult.topCandidates = TopTwo(Candidates(frameResults))

\* C9: an attempt in which every frame yields no result aggregates to null
\* (Empty) and leaves scanHistory as it was.
C9_EmptyAttempt ==
    [][(phase = "idle" /\ phase' = "checked" /\ AllNoResult(attempt'))
        => (aggregatedResult' = null /\ scanHistory' = scanHistory)]_vars

\* An attempt without any result has been closed on top of a non-empty history.
C9_Witness ==
    /\ phase = "checked" /\ attempt # <<>> /\ AllNoResult(attempt)
    /\ aggregatedResult = null /\ scanHistory # <<>>

\* C10: every Winner has voteCount <= totalFrames and consensus equal to
\* 100 * voteCount / totalFrames rounded to the nearest integer.
C10_WinnerConsensus ==
    (Aggregated /\ aggregatedResult.kind = "winner") =>
        /\ aggregatedResult.voteCount <= aggregatedResult.totalFrames
        /\ IsRounded(aggregatedResult.consensus, 100 * aggregatedResult.voteCount,
                     aggregatedResult.totalFrames)

\* A Winner that did not get every counted frame, with a percentage that is rounded up.
C10_Witness ==
    /\ phase = "checked" /\ aggregatedResult.kind = "winner"
    /\ aggregatedResult.voteCount < aggregatedResult.totalFrames
    /\ aggregatedResult.consensus * aggregatedResult.totalFrames
          > 100 * aggregatedResult.voteCount

Latest(h) == h[Len(h)]

\* A step that closes an attempt: aggregate, record, check.
ClosesAttempt == phase = "idle" /\ phase' = "checked"

\* C11: scanHistory holds at most 3 entries, every entry is a Winner, and an
\* Inconclusive or Empty attempt result leaves scanHistory unchanged.
C11_HistoryOfWinners ==
    [][/\ Len(scanHistory') <= 3
       /\ \A i \in 1..Len(scanHistory') : scanHistory'[i].kind = "winner"
       /\ (ClosesAttempt /\ aggregatedResult'.kind # "winner")
              => scanHistory' = scanHistory]_vars

\* An inconclusive attempt has been closed on top of a full history.
C11_Witness ==
    /\ phase = "checked" /\ aggregatedResult.kind = "inconclusive"
    /\ Len(scanHistory) = 3

\* C12: recording a Winner appends it; with 3 entries already held exactly
\* the oldest is evicted and the other two keep their order; the entry
\* checkForConfidentMatch returns is the most recently recorded Winner.
C12_HistoryIsFifo ==
    [][ClosesAttempt =>
         /\ (aggregatedResult'.kind = "winner" /\ Len(scanHistory) = 3)
                => scanHistory' = <<scanHistory[2], scanHistory[3], aggregatedResult'>>
         /\ (aggregatedResult'.kind = "winner" /\ Len(scanHistory) < 3)
                => scanHistory' = Append(scanHistory, aggregatedResult')
         /\ shouldDisplay' # null => shouldDisplay' = Latest(scanHistory')]_vars

\* A Winner has been recorded into a full history and the oldest entry evicted.
C12_Witness ==
    /\ phase = "checked" /\ shifted # null /\ Len(scanHistory) = 3
    /\ aggregatedResult = Latest(scanHistory)
    /\ shifted # scanHistory[1]

\* C13: a latest Winner with consensus 100 and matches >= 25 is returned by
\* checkForConfidentMatch, whatever the other entries, also as the only entry.
C13_FastAccept ==
    (/\ phase = "checked" /\ scanHistory # <<>>
     /\ Latest(scanHistory).consensus = 100
     /\ Latest(scanHistory).matches >= 25)
    => shouldDisplay = Latest(scanHistory)

\* A perfect scan is the only entry and is returned.
C13_Witness ==
    /\ phase = "checked" /\ Len(scanHistory) = 1
    /\ aggregatedResult = scanHistory[1]
    /\ scanHistory[1].consensus = 100 /\ scanHistory[1].matches >= 25
    /\ shouldDisplay = scanHistory[1]

\* C14: checkForConfidentMatch returns null for an empty history and for a
\* history of exactly one Winner that is not a perfect single scan.
C14_SingleEntryRejected ==
    (/\ phase = "checked"
     /\ \/ scanHistory = <<>>
        \/ /\ Len(scanHistory) = 1
           /\ ~(scanHistory[1].consensus = 100 /\ scanHistory[1].matches >= 25))
    => shouldDisplay = null

\* A Winner with consensus 80 is the only entry and nothing is returned.
C14_Witness ==
    /\ phase = "checked" /\ Len(scanHistory) = 1
    /\ aggregatedResult = scanHistory[1]
    /\ scanHistory[1].consensus = 80
    /\ shouldDisplay = null

\* History [X, X, Y]: three Winners, the first two of one identity, the
\* latest of another.
IsXXY(h) ==
    /\ Len(h) = 3
    /\ h[1].name = h[2].name
    /\ h[3].name # h[1].name

\* C15: for a history [X, X, Y] whose latest entry has consensus >= 80,
\* checkForConfidentMatch returns null.
C15_LatestNotMostFrequent ==
    (/\ phase = "checked" /\ IsXXY(scanHistory)
     /\ Latest(scanHistory).consensus >= 80)
    => shouldDisplay = null

\* C15 as amended: the same, for a latest entry that is not a perfect single
\* scan (consensus 100 with matches >= 25).
C15_LatestNotMostFrequentUnlessPerfect ==
    (/\ phase = "checked" /\ IsXXY(scanHistory)
     /\ Latest(scanHistory).consensus >= 80
     /\ ~(Latest(scanHistory).consensus = 100 /\ Latest(scanHistory).matches >= 25))
    => shouldDisplay = null

\* A history [X, X, Y] with a latest entry that is no perfect scan has been checked.
C15_Witness ==
    /\ phase = "checked" /\ IsXXY(scanHistory)
    /\ Latest(scanHistory).consensus >= 80
    /\ ~(Latest(scanHistory).consensus = 100 /\ Latest(scanHistory).matches >= 25)
    /\ shouldDisplay = null

\* C16: when checkForConfidentMatch yields a Winner the loop finalizes:
\* scanningActive becomes false, scanHistory is cleared, the Winner is handed
\* to displayResult once, and the loop instance ends without another attempt.
C16_Finalizes ==
    [][/\ (phase = "checked" /\ shouldDisplay # null)
            => /\ phase' = "finalized"
               /\ ~scanningActive'
               /\ scanHistory' = <<>>
               /\ displayed' = shouldDisplay
       /\ displayed' # null => (phase = "checked" /\ phase' = "finalized")
       /\ phase = "finalized"
            => /\ phase' = "idle"
               /\ loops' = Take(loops, InSync)
               /\ UNCHANGED <<scanningActive, scanHistory>>]_vars

\* The loop has finalized and handed a Winner to displayResult.
C16_Witness ==
    /\ phase = "finalized" /\ displayed # null /\ displayed.kind = "winner"
    /\ ~scanningActive /\ scanHistory = <<>> /\ resultModal

\* No loop instance and no start timer is left and the flag is false.
SessionIdle ==
    /\ camera = "ready" /\ phase = "idle"
    /\ loops = EmptyBag /\ ~scanningActive

\* C17: once the session is idle again, after a finalization or after a stop
\* request, scanHistory is empty.
C17_HistoryClearedWhenIdle == SessionIdle => scanHistory = <<>>

AttemptsStarting == CopiesIn(Lp("recognize", 0), loops)

\* C18: while a stop-and-view-logs request stands (the logs are shown and no
\* start request came after it), the flag stays false and no loop instance
\* begins a new attempt.
C18_StopIsEffective ==
    [][(stopRequested /\ logsModal /\ stopRequested' /\ logsModal')
          => (~scanningActive' /\ AttemptsStarting' <= AttemptsStarting)]_vars

ErrorWaits == CopiesIn(Lp("errorWait", SCAN_INTERVAL), loops)

\* C19: an attempt that throws leaves scanningActive and scanHistory as they
\* were and displays nothing; after the wait of the catch the loop, still
\* active, starts another attempt.
C19_AttemptErrorRecovered ==
    [][/\ ErrorWaits' > ErrorWaits
            => /\ UNCHANGED <<scanningActive, scanHistory, ui>>
               /\ displayed' = null /\ phase' = "idle"
       /\ (ErrorWaits' < ErrorWaits /\ scanningActive)
            => /\ AttemptsStarting' = AttemptsStarting + 1
               /\ UNCHANGED <<scanningActive, scanHistory>>]_vars

\* A failed attempt waits in the catch, the session active and its history kept.
C19_Witness ==
    /\ ErrorWaits > 0 /\ scanningActive /\ scanHistory # <<>> /\ displayed = null

\* A strategy threw while classifying the frame classified last.
FaceThrew == strategies # null /\ strategies.face.kind = "throws"
OrbThrew == strategies # null /\ strategies.orb.kind = "throws"

\* The frames of the attempt classified so far, by the position of the loop.
FramesClassified ==
    \A s \in BagToSet(loops) :
        /\ s.pc = "recognize" => Len(attempt) = s.i
        /\ s.pc = "frameDelay" => Len(attempt) = s.i + 1
        /\ s.pc = "sync" => Len(attempt) = NUM_FRAMES
        /\ s.pc # "errorWait"

\* C20: an error inside either strategy is caught, the frame yields no
\* result, the error does not reach the loop and the attempt goes on with
\* its remaining frames.
C20_StrategyErrorIsNoResult ==
    /\ FramesClassified
    /\ (FaceThrew \/ OrbThrew) => Latest(attempt) = null

\* C20 as amended: an error inside a strategy is caught and that strategy
\* yields nothing: after an error in Layer 1 the frame yields what Layer 2
\* alone yields, after an error in Layer 2 it yields no result; the error
\* does not reach the loop and the attempt goes on with its remaining frames.
C20_StrategyErrorIsNoStrategyResult ==
    /\ FramesClassified
    /\ OrbThrew => Latest(attempt) = null
    /\ FaceThrew =>
          Latest(attempt) =
              IF strategies.orb.kind = "best" /\ strategies.orb.matches >= 20
              THEN [kind |-> "match", name |-> strategies.orb.name,
                    matches |-> strategies.orb.matches, method |-> "orb-matching"]
              ELSE null

\* Layer 2 threw in a frame before the last one and the loop waits for the next frame.
C20_Witness ==
    /\ OrbThrew /\ Latest(attempt) = null
    /\ \E s \in BagToSet(loops) : s.pc = "frameDelay" /\ s.i >= 1

\* C21: when camera setup has failed (the permission prompt was shown and the
\* camera was not granted since), scanning is not started: scanningActive is
\* false and no start timer or loop instance exists, so no attempt runs.
CameraFailed == camera \in {"denied", "upload"}

C21_NoScanningWithoutCamera ==
    CameraFailed => (~scanningActive /\ AttemptsInProgress = 0 /\ ~BagIn(Timer, loops))

\* The call of recognizePresident being followed has returned; its result.
Returned == BagIn(Pc("returned"), loops)
Result == attempt[Len(attempt)]

KnownLabel(f) == f.kind = "label" /\ f.label # "unknown"

\* C22: nothing of Layer 2 happens before Layer 1 has settled or was skipped;
\* when Layer 1 yields a known label the call returns the face-recognition
\* match of that label and Layer 2 is not invoked; Layer 2 is invoked exactly
\* when Layer 1 is skipped or yields no known label.
C22_FastFirstFallbackOtherwise ==
    /\ strategies = null => (allocated = {} /\ attempt = <<>>)
    /\ strategies # null =>
          /\ KnownLabel(strategies.face) =>
                /\ strategies.orb = skipped /\ allocated = {}
                /\ Returned
                /\ Result.kind = "match" /\ Result.method = "face-recognition"
                /\ Result.name = strategies.face.label
          /\ ~KnownLabel(strategies.face) =>
                /\ strategies.orb # skipped
                /\ Returned => strategies.orb.kind \in {"throws", "noDescriptors", "matched"}

C22_Witness ==
    /\ Returned /\ strategies # null
    /\ KnownLabel(strategies.face) /\ strategies.orb = skipped

RECURSIVE MaxOf(_)
MaxOf(g) == IF g = <<>> THEN 0
            ELSE LET m == MaxOf(Tail(g)) IN IF Head(g) > m THEN Head(g) ELSE m

\* C23: when Layer 2 has compared the frame with every reference, the call
\* returns the orb-matching match of a reference with the highest count of
\* validated matches, with that count as its matches, if the count is at
\* least 20, and null if it is lower (0 included); a Layer 2 that throws or
\* finds no descriptors returns null.
C23_FallbackThreshold ==
    (Returned /\ strategies.orb # skipped) =>
        IF strategies.orb.kind = "matched"
        THEN LET g == strategies.orb.goodMatches
             IN IF MaxOf(g) >= 20
                THEN /\ Result.kind = "match" /\ Result.method = "orb-matching"
                     /\ Result.matches = MaxOf(g)
                     /\ \E k \in 1..Len(References) :
                           References[k] = Result.name /\ g[k] = MaxOf(g)
                ELSE Result = null
        ELSE Result = null

C23_Witness ==
    /\ Returned /\ strategies.orb # skipped /\ strategies.orb.kind = "matched"
    /\ MaxOf(strategies.orb.goodMatches) = 20
    /\ Result # null

\* C24: when the call has returned, every native object it created has been
\* deleted.
C24_NativeObjectsReleased == Returned => allocated = {}

\* The attempt with frames i and i + 1 exchanged.
Swap(att, i) ==
    [j \in 1..Len(att) |-> IF j = i THEN att[i + 1] ELSE IF j = i + 1 THEN att[i] ELSE att[j]]

\* C25: the aggregate of an attempt is the aggregate of each attempt that
\* holds the same frame results in another order (every permutation is a
\* chain of exchanges of neighbours, and every attempt is aggregated).
C25_OrderIndependent ==
    Aggregated =>
        \A i \in 1..(Len(attempt) - 1) :
            aggregateFrameResults(Collect(Swap(attempt, i))) = aggregatedResult

Capturing == \E s \in BagToSet(loops) : s.pc \in {"captureRecognize", "captureDelay"}

\* C26: every confidence value computed for a frame or for the display, and
\* the consensus of every Winner, lies between 0 and 100.
C26_ConfidenceInRange ==
    /\ \A i \in 1..Len(confidences) : confidences[i] \in 0..100
    /\ aggregatedResult.kind = "winner" => aggregatedResult.consensus \in 0..100

C26_Witness ==
    /\ phase = "captured" /\ Shown(displayed) = "match"
    /\ confidences = <<95>>
    /\ aggregatedResult.consensus = 100

\* C27 as stated: a capture returns only after it has handed a result to
\* displayResult.
C27_EveryCaptureHandsResult ==
    [][(Capturing /\ ~Capturing') => resultModal]_vars

\* C27: a capture never changes scanHistory or scanningActive; it aggregates
\* exactly CAPTURE_NUM_FRAMES classified frames; displayResult is called only
\* with that aggregate and only once; and the capture returns after that
\* call or, when a frame threw, after the error feedback without a call.
C27_SingleShotCapture ==
    [][/\ UNCHANGED <<scanningActive, scanHistory>>
       /\ phase' = "aggregated" =>
             /\ Len(attempt') = 5
             /\ aggregatedResult' = aggregateFrameResults(Collect(attempt'))
       /\ (resultModal' # resultModal \/ (displayed' # displayed /\ displayed' # null)) =>
             /\ phase = "aggregated" /\ ~resultModal /\ resultModal'
             /\ displayed' = aggregatedResult
       /\ (phase = "aggregated" /\ phase' # phase) =>
             (phase' = "captured" /\ resultModal' /\ displayed' = aggregatedResult)
       /\ (Capturing /\ ~Capturing') =>
             \/ resultModal /\ vibrated \in {"success", "noMatch"}
             \/ ~resultModal /\ vibrated = "error" /\ Len(attempt) < 5]_vars

C27_Witness ==
    /\ phase = "captured" /\ resultModal
    /\ displayed = aggregatedResult /\ displayed.kind = "inconclusive"
    /\ scanHistory # <<>> /\ scanningActive

\* C28: the log list of the diagnostic logger never holds more than 100
\* entries.
C28_LogKeepsLast100 == Len(logs) <= LOG_LIMIT

\* A result has just been handed to displayResult and the feedback given.
ResultPresented == phase \in {"uploaded", "finalized"} /\ vibrated # "error"

\* C29: a presented result is displayed as a match, and the success pattern
\* is given, exactly when the result has at least 15 good matches.
C29_PositiveFromFifteenMatches ==
    ResultPresented =>
        LET positive == /\ displayed # null /\ displayed.kind # "inconclusive"
                        /\ displayed.matches >= 15
        IN /\ (Shown(displayed) = "match") = positive
           /\ (vibrated = "success") = positive

\* C30: no attempt aggregates to Inconclusive with reason tie: every
\* aggregate is null, Inconclusive for insufficient consensus, or a Winner;
\* and a top candidate with a consensus of at least 80% has more than one
\* vote more than the runner-up.
C30_TieUnreachable ==
    Aggregated =>
        /\ \/ aggregatedResult = null
           \/ aggregatedResult.kind = "winner"
           \/ /\ aggregatedResult.kind = "inconclusive"
              /\ aggregatedResult.reason = "insufficient_consensus"
        /\ LET c == Candidates(frameResults)
           IN (Len(c) > 1 /\ 100 * c[1].voteCount >= 80 * Len(frameResults))
                  => c[1].voteCount - c[2].voteCount > 1

C30_Witness ==
    /\ Aggregated /\ aggregatedResult.kind = "winner"
    /\ Len(Candidates(frameResults)) > 1
    /\ Abs(Candidates(frameResults)[1].avgMatches
             - Candidates(frameResults)[2].avgMatches) < 8

\* A Winner with a consensus of 80 to 100 percent and more than half of the
\* counted frames.
StrongWinner(r) ==
    /\ r.consensus \in 80..100
    /\ 2 * r.voteCount > r.totalFrames

\* C31: every Winner an attempt aggregates to, and every entry of the scan
\* history, has a consensus of 80 to 100 and more than half of the counted
\* frames, so the test latestScan.consensus >= 80 of the consistency rule
\* is true of every latest entry.
C31_WinnersHaveConsensus ==
    /\ (Aggregated /\ aggregatedResult.kind = "winner") => StrongWinner(aggregatedResult)
    /\ \A i \in 1..Len(scanHistory) : StrongWinner(scanHistory[i])

C31_Witness ==
    /\ Aggregated /\ aggregatedResult.kind = "winner"
    /\ aggregatedResult.consensus = 80 /\ aggregatedResult.voteCount < aggregatedResult.totalFrames
    /\ scanHistory = <<aggregatedResult>>

\* The rule stated on the latest identity: the share of the entries that
\* have the name of the latest entry is at least 0.67.
LatestShareAccepts(h) == 100 * NameCount(h, Latest(h).name) >= 67 * Len(h)

\* C32: for every history of one to three Winners the test of the code (the
\* most frequent name has a share of at least 0.67 and is the name of the
\* latest entry) holds exactly when the share of the latest entry's name is
\* at least 0.67; and once the check has run on a history of two or more
\* entries whose latest is no perfect single scan, it returns a match
\* exactly when that share is at least 0.67.
C32_RuleFormulationsAgree ==
    Len(scanHistory) >= 1 =>
        /\ (Consistent(scanHistory) /\ Latest(scanHistory).name = MostFrequent(scanHistory))
               = LatestShareAccepts(scanHistory)
        /\ (/\ phase = "checked" /\ Len(scanHistory) >= 2
            /\ ~(Latest(scanHistory).consensus = 100 /\ Latest(scanHistory).matches >= 25))
               => ((shouldDisplay # null) = LatestShareAccepts(scanHistory))

C32_Witness ==
    /\ phase = "checked" /\ Len(scanHistory) = 3
    /\ Latest(scanHistory).matches < 25
    /\ LatestShareAccepts(scanHistory)
    /\ shouldDisplay = Latest(scanHistory)

\* C33: at every suspension point of the loop checkForConfidentMatch is null
\* on the scan history; a check that returns a match returns the Winner the
\* attempt being closed aggregated to, and that Winner is what the finalize
\* branch hands to displayResult.
C33_NoStaleResult ==
    /\ Quiet => checkForConfidentMatch(scanHistory) = null
    /\ (phase = "checked" /\ shouldDisplay # null)
          => (aggregatedResult.kind = "winner" /\ shouldDisplay = aggregatedResult)
    /\ phase = "finalized"
          => (aggregatedResult.kind = "winner" /\ displayed = aggregatedResult)

\* An attempt without a Winner has been closed on a history that holds
\* Winners of earlier attempts, and nothing is to be displayed.
C33_Witness ==
    /\ phase = "checked" /\ aggregatedResult.kind # "winner"
    /\ Len(scanHistory) >= 2
    /\ shouldDisplay = null

\* C34: when an attempt records a Winner with the name of the Winner
\* recorded before it, the check of that attempt returns it: the scan
\* finalizes on the second of two successive Winners of one identity.
C34_SecondSuccessiveWinnerFinalizes ==
    [][(/\ ClosesAttempt /\ aggregatedResult'.kind = "winner"
        /\ scanHistory # <<>>
        /\ Latest(scanHistory).name = aggregatedResult'.name)
       => shouldDisplay' = aggregatedResult']_vars

\* C35: every frame result of the dispatcher carries at least 20 matches, so
\* every Winner (aggregated or recorded) has matches >= 20 and the Winner a
\* continuous scan finalizes is rendered as a found match.
C35_ResultsMeetDisplayMinimum ==
    /\ \A i \in 1..Len(attempt) : attempt[i] # null => attempt[i].matches >= 20
    /\ \A i \in 1..Len(frameResults) : frameResults[i].matches >= 20
    /\ (Aggregated /\ aggregatedResult.kind = "winner") => aggregatedResult.matches >= 20
    /\ \A i \in 1..Len(scanHistory) : scanHistory[i].matches >= 20
    /\ phase = "finalized" =>
          /\ displayed # null /\ displayed.kind = "winner"
          /\ Shown(displayed) = "match"
          /\ Len(confidences) = 1

\* An attempt of descriptor matches, one of them at the minimum of 20, is
\* finalized and shown.
C35_Witness ==
    /\ phase = "finalized" /\ displayed # null /\ displayed.kind = "winner"
    /\ Shown(displayed) = "match"
    /\ \A i \in 1..Len(attempt) : attempt[i] # null /\ attempt[i].method = "orb-matching"
    /\ \E i \in 1..Len(attempt) : attempt[i].matches = 20

\* Attempts whose matched frames are all Fast matches of identity n: k such
\* frames, k = 1..NUM_FRAMES, the other frames without a result.
FastAttempts(n) == {Mix(Face(n), k, null) : k \in 1..NUM_FRAMES}

\* All matched frames of the attempt are Fast matches of one identity.
AllFast(att) ==
    /\ \E i \in 1..Len(att) : att[i] # null
    /\ \A i \in 1..Len(att) :
          att[i] # null => (att[i].method = "face-recognition" /\ att[i].name = "A")

C37_WaitNonNegative ==
    \A l \in BagToSet(loops) : l.pc \in {"scanWait", "errorWait"} => l.i >= 0

\* The call of navigate made last left its path and state in the current
\* entry of window.history.
LastNavigation == historyEntries[Len(historyEntries)]

\* The route of the page load was entered before any route of a navigate
\* call: the first hook called is the onEnter of the call made by init.
InitialRouteEntered == lifecycle # <<>> /\ lifecycle[1] = Hook("onEnter", "/", 0)

\* C38: navigation is last-wins: with the page's initial route entered
\* first, once the template loads of the navigate calls made have all
\* completed, currentRoute and currentState are those of the navigate call
\* made last, and the onEnter calls were made in the order of the navigate
\* calls they belong to.
C38_LastNavigationWins ==
    InitialRouteEntered =>
        /\ (navigations >= 1 /\ pendingRoutes = {}) =>
              /\ currentRoute # null
              /\ currentRoute.path = LastNavigation.path
              /\ currentState = LastNavigation.state
        /\ \A i, j \in 1..Len(lifecycle) :
              (i < j /\ lifecycle[i].hook = "onEnter" /\ lifecycle[j].hook = "onEnter")
                  => lifecycle[i].nav <= lifecycle[j].nav

\* The session ids of a store, as a set and in insertion order.
IdsOf(store) == {store[i].sessionId : i \in 1..Len(store)}
IdSeq(store) == [i \in 1..Len(store) |-> store[i].sessionId]

\* C39: a POST /api/logs leaves at most 50 sessions with at most 1000 log
\* entries each and is never answered by 500; when it creates a session the
\* new session is in the store, and a session is removed only if the store
\* was full: exactly one, and none of the sessions before the request was
\* active less recently than it.
C39_LogStoreBounded ==
    [][requests' # requests =>
        /\ Len(sessions') <= 50
        /\ \A i \in 1..Len(sessions') : Len(sessions'[i].logs) <= 1000
        /\ response' # 500
        /\ \/ IdSeq(sessions') = IdSeq(sessions)
           \/ /\ Cardinality(IdsOf(sessions') \ IdsOf(sessions)) = 1
              /\ Len(sessions) < 50 =>
                    \A i \in 1..Len(sessions) : Has(sessions', sessions[i].sessionId)
              /\ Len(sessions) = 50 =>
                    /\ Cardinality(IdsOf(sessions) \ IdsOf(sessions')) = 1
                    /\ \A i \in 1..Len(sessions) :
                          ~Has(sessions', sessions[i].sessionId) =>
                              \A j \in 1..Len(sessions) :
                                  sessions[i].stats.lastActivity
                                      <= sessions[j].stats.lastActivity]_vars

\* Session 1 logged again, then two new sessions arrived: the store is full
\* and session 2, by then the least recently active, is gone.
C39_Witness ==
    /\ response = 200 /\ Len(sessions) = 50
    /\ IdsOf(sessions) = (1..51) \ {2}

====
